---- MODULE Spec2Model ----
(***************************************************************************)
(* Discussion-tree tools of mcp-collections:                               *)
(*   - reddit-pushapi.ts getRedditComments: two-pass tree build from a     *)
(*     flat batch with parent_id back links (SpecTree);                    *)
(*   - reddit.ts / reddit-pushapi.ts: the retry loop of searchReddit,      *)
(*     getRedditComments and getRedditPost (SpecRetry);                    *)
(*   - hacker-news.ts getComments / getStories: concurrent forward-link    *)
(*     expansion with Promise.all (SpecHN).                                *)
(* Strings that the code cuts or compares by prefix are sequences of       *)
(* one-character strings.                                                  *)
(***************************************************************************)
EXTENDS Integers, Sequences, FiniteSets, TLC

VARIABLES
    \* ---- reddit-pushapi.ts getRedditComments, build comment tree
    comments,          \* response.data.data: the fetched batch
    commentsById,      \* id -> node object (named by the batch index that created it)
    topLevelComments,  \* sequence of node objects
    replies,           \* node object -> its replies array
    treeOut,           \* "none" | "result" | "error": what the handler returned
    \* ---- reddit.ts / reddit-pushapi.ts: one invocation of a retrying tool
    tool,              \* the tool invoked: [file, name], or NoTool
    pc,                \* "idle" | "inflight" | "backoff" | "postInflight" | "done"
    retries,           \* let retries = 0
    response,          \* let response
    now,               \* the clock, in ms
    wakeAt,            \* when the pending setTimeout is due
    issued,            \* the time of each request to the primary endpoint
    failures,          \* per failed attempt: its time and the error caught
    delays,            \* the delays passed to setTimeout
    postRequests,      \* requests to the post-metadata endpoint (PullPush comments)
    post,              \* the post object of the PullPush comments output
    outcome,           \* what the invocation returned or threw
    \* ---- reddit.ts getRedditComments: the response and its normalization
    listing,           \* response.data[1].data.children
    rawPost,           \* response.data[0].data.children[0].data
    processedComments, \* processComments(comments)
    outPost,           \* the post object of the output
    procOut,           \* "none" | "result"
    \* ---- hacker-news.ts: one invocation of getComments or getStories
    hnTool,            \* "none" | "getComments" | "getStories"
    limit,             \* getStories: args.limit
    fetch,             \* per item: the state of its fetch and of the promise awaiting it
    data,              \* per item: what its request was answered with
    node,              \* per item: the value its promise resolved with
    hnIssued,          \* per item: the number of axios.get calls made for it
    hnOut,             \* what the invocation returned or threw
    \* ---- reddit-pushapi.ts getRedditComments: concurrent invocations
    invocations,       \* per invocation: the locals of its execute
    \* ---- mysql.ts: execute_sql and executeQuery, one call after another
    sqlQuery,          \* args.query of the current call
    sqlPc,             \* where the current call is
    sqlCalls,          \* the calls of execute_sql made so far
    sqlPassed,         \* the queries passed to executeQuery by the current call
    sqlOpened,         \* the connections createConnection has resolved with so far
    sqlConn,           \* const connection of the current call (0: none)
    sqlEnded,          \* per connection: the connection.end() calls made on it
    sqlErr,            \* whether the try block before finally threw
    sqlOut,            \* what the current call returned or threw
    \* ---- unnamed/part_001: one invocation of a YouTube Data API tool
    ytTool,            \* the tool invoked ("none": not yet)
    ytKey,             \* whether YOUTUBE_API_KEY is set
    ytPc,              \* "idle" | "inflight" | "done"
    ytRequests,        \* the axios.get calls made
    ytOut,             \* what the invocation returned or threw
    ytAnswer,          \* how the request of the invocation settled ("none": no request)
    \* ---- mermaid.ts: one invocation of generateMermaidDiagram
    mmPc,              \* where the invocation is
    tempDir,           \* the directory mkdtemp made for the invocation (0: none)
    mmDirs,            \* the directories made by mkdtemp: whether each exists, its files
    mmCalls,           \* the invocations of generateMermaidDiagram
    mmOut              \* what the invocation returned or threw

treeVars == <<comments, commentsById, topLevelComments, replies, treeOut>>

retryVars == <<tool, pc, retries, response, now, wakeAt, issued, failures, delays,
               postRequests, post, outcome>>

hnVars == <<hnTool, limit, fetch, data, node, hnIssued, hnOut>>

procVars == <<listing, rawPost, processedComments, outPost, procOut>>

concVars == <<invocations>>

sqlVars == <<sqlQuery, sqlPc, sqlCalls, sqlPassed, sqlOpened, sqlConn, sqlEnded,
             sqlErr, sqlOut>>

ytVars == <<ytTool, ytKey, ytPc, ytRequests, ytOut, ytAnswer>>

mermaidVars == <<mmPc, tempDir, mmDirs, mmCalls, mmOut>>

ioVars == <<sqlVars, ytVars, mermaidVars>>

vars == <<comments, commentsById, topLevelComments, replies, treeOut,
          tool, pc, retries, response, now, wakeAt, issued, failures, delays,
          postRequests, post, outcome,
          listing, rawPost, processedComments, outPost, procOut,
          hnTool, limit, fetch, data, node, hnIssued, hnOut,
          invocations,
          sqlQuery, sqlPc, sqlCalls, sqlPassed, sqlOpened, sqlConn, sqlEnded,
          sqlErr, sqlOut,
          ytTool, ytKey, ytPc, ytRequests, ytOut, ytAnswer,
          mmPc, tempDir, mmDirs, mmCalls, mmOut>>

-----------------------------------------------------------------------------
\* Bounds of the model
MaxBatch == 3
MaxKids == 2           \* the length of a kids list of the item store
MaxClock == 8          \* the clock stops after MaxClock ticks of BaseDelay / 2
MaxListing == 4        \* the length of the top-level comment listing of reddit.ts
MaxInvocations == 2    \* the invocations of a tool that run at the same time
MaxTokens == 3         \* the length of a query of execute_sql, in tokens
MaxCalls == 2          \* the invocations of execute_sql made one after another
MaxRequests == 2       \* the requests to the YouTube Data API
MaxRenders == 3        \* the invocations of generateMermaidDiagram made one after another

-----------------------------------------------------------------------------
\* Strings

AllIds == << <<"a">>, <<"b">>, <<"c">>, <<"d">>, <<"e">> >>
Ids == {AllIds[i] : i \in 1..MaxBatch}
AbsentId == <<"z">>
postId == <<"p">>
otherPostId == <<"q">>

T3 == <<"t", "3", "_">>
T1 == <<"t", "1", "_">>

\* String.prototype.startsWith
startsWith(s, prefix) ==
    /\ Len(s) >= Len(prefix)
    /\ SubSeq(s, 1, Len(prefix)) = prefix

\* String.prototype.substring(n): the characters from 0-based index n on
substring(s, n) == SubSeq(s, n + 1, Len(s))

\* comment.parent_id values: undefined or "" is <<>>; a t3_ id of this post or
\* of another one; an id without prefix; a t1_ id of the batch or of no item
ParentRefs ==
    {<<>>, T3 \o postId, T3 \o otherPostId, AbsentId}
        \cup {T1 \o i : i \in Ids \cup {AbsentId}}

\* Ids are opaque to the code, so the batches are enumerated up to a renaming of
\* their ids: the first id of a batch is AllIds[1], and each later item repeats
\* an id seen before or takes the next unused one.
IdChoices(n) ==
    {f \in [1..n -> 1..MaxBatch] :
        \A k \in 1..n : \A m \in 1..(f[k] - 1) : \E j \in 1..(k - 1) : f[j] = m}

Batch(f, ps) == [k \in DOMAIN f |-> [id |-> AllIds[f[k]], parent_id |-> ps[k]]]

-----------------------------------------------------------------------------
\* reddit-pushapi.ts getRedditComments: build comment tree

\* First pass: commentsById[comment.id] = {...}; a later item with the same id
\* overwrites the entry, so the id names the node created last for it.
RECURSIVE FirstPass(_, _, _)
FirstPass(batch, k, byId) ==
    IF k > Len(batch) THEN byId
    ELSE FirstPass(batch, k + 1,
            [i \in DOMAIN byId \cup {batch[k].id} |->
                IF i = batch[k].id THEN k ELSE byId[i]])

\* SecondPassStep with a fault: a top-level comment is inserted at the front.
SecondPassStepUnshift(batch, k, byId, acc) ==
    LET comment == batch[k]
        commentObj == byId[comment.id]
    IN  IF comment.parent_id = T3 \o postId
        THEN [acc EXCEPT !.top = <<commentObj>> \o @]
        ELSE IF comment.parent_id # <<>> /\ startsWith(comment.parent_id, T1)
        THEN LET parentId == substring(comment.parent_id, 3)
             IN  IF parentId \in DOMAIN byId
                 THEN [acc EXCEPT !.replies[byId[parentId]] = Append(@, commentObj)]
                 ELSE [acc EXCEPT !.top = Append(@, commentObj)]
        ELSE acc

\* SecondPassStep with a fault: a reply is linked only to a parent that comes
\* earlier in the batch, as a build in a single pass would do.
SecondPassStepOnePass(batch, k, byId, acc) ==
    LET comment == batch[k]
        commentObj == byId[comment.id]
    IN  IF comment.parent_id = T3 \o postId
        THEN [acc EXCEPT !.top = Append(@, commentObj)]
        ELSE IF comment.parent_id # <<>> /\ startsWith(comment.parent_id, T1)
        THEN LET parentId == substring(comment.parent_id, 3)
             IN  IF parentId \in DOMAIN byId /\ byId[parentId] < k
                 THEN [acc EXCEPT !.replies[byId[parentId]] = Append(@, commentObj)]
                 ELSE [acc EXCEPT !.top = Append(@, commentObj)]
        ELSE acc

\* SecondPassStep with a fault: a reply is linked to its parent and is put in
\* the top-level list as well.
SecondPassStepAlsoTop(batch, k, byId, acc) ==
    LET comment == batch[k]
        commentObj == byId[comment.id]
    IN  IF comment.parent_id = T3 \o postId
        THEN [acc EXCEPT !.top = Append(@, commentObj)]
        ELSE IF comment.parent_id # <<>> /\ startsWith(comment.parent_id, T1)
        THEN LET parentId == substring(comment.parent_id, 3)
             IN  IF parentId \in DOMAIN byId
                 THEN [acc EXCEPT !.replies[byId[parentId]] = Append(@, commentObj),
                                  !.top = Append(@, commentObj)]
                 ELSE [acc EXCEPT !.top = Append(@, commentObj)]
        ELSE acc

\* Second pass, one iteration of comments.forEach
SecondPassStep(batch, k, byId, acc) ==
    LET comment == batch[k]
        commentObj == byId[comment.id]
    IN  IF comment.parent_id = T3 \o postId
        THEN [acc EXCEPT !.top = Append(@, commentObj)]
        ELSE IF comment.parent_id # <<>> /\ startsWith(comment.parent_id, T1)
        THEN LET parentId == substring(comment.parent_id, 3)
             IN  IF parentId \in DOMAIN byId
                 THEN [acc EXCEPT !.replies[byId[parentId]] = Append(@, commentObj)]
                 ELSE [acc EXCEPT !.top = Append(@, commentObj)]
        ELSE acc

RECURSIVE SecondPass(_, _, _, _)
SecondPass(batch, k, byId, acc) ==
    IF k > Len(batch) THEN acc
    ELSE SecondPass(batch, k + 1, byId, SecondPassStep(batch, k, byId, acc))

\* Node objects reachable from a list of node objects in at most n steps
RECURSIVE ReachableFrom(_, _, _)
ReachableFrom(S, rep, n) ==
    IF n = 0 THEN S
    ELSE ReachableFrom(S \cup UNION {{rep[x][j] : j \in 1..Len(rep[x])} : x \in S},
                       rep, n - 1)

\* JSON.stringify throws on a structure that contains itself
Circular(top, rep) ==
    LET n == Cardinality(DOMAIN rep)
        R == ReachableFrom({top[j] : j \in 1..Len(top)}, rep, n)
    IN  \E x \in R :
            x \in ReachableFrom({rep[x][j] : j \in 1..Len(rep[x])}, rep, n)

-----------------------------------------------------------------------------
\* reddit.ts getRedditComments: processComments and the post of the output

\* "https://www.reddit.com", and the relative path Reddit gives an item
Origin == <<"https://www.reddit.com">>
Path(id) == <<"/", "r", "/", "s", "/">> \o id
\* null: a token that is no string
JsNull == <<"null">>

\* The children of a listing: comments (kind t1) and 'more' items. A comment
\* without permalink has permalink <<>>; its replies are "" (listing FALSE) or a
\* listing wrapper with data.children.
NoReplies == [listing |-> FALSE, children |-> <<>>]
Replies(cs) == [listing |-> TRUE, children |-> cs]
RawMore(n, ids) == [kind |-> "more", data |-> [count |-> n, children |-> ids]]
RawComment(id, hasPermalink, reps) ==
    [kind |-> "t1",
     data |-> [id |-> id,
               permalink |-> IF hasPermalink THEN Path(id) ELSE <<>>,
               replies |-> reps]]

\* What the replies of a top-level comment are in this model: "", an empty
\* listing, or a listing of a comment (with a reply and a 'more' item of its
\* own) and a 'more' item
ReplyShapes ==
    {NoReplies,
     Replies(<<>>),
     Replies(<< RawComment(<<"m">>, FALSE,
                    Replies(<< RawComment(<<"n">>, TRUE, NoReplies),
                               RawMore(2, << <<"x">> >>) >>)),
                RawMore(0, <<>>) >>)}

\* The items a top-level listing is made of, before they are given their ids
ItemShapes ==
    {RawMore(5, << <<"x">>, <<"y">> >>)}
        \cup {RawComment(<<>>, h, reps) : h \in BOOLEAN, reps \in ReplyShapes}

WithId(item, id) ==
    IF item.kind = "more" THEN item
    ELSE RawComment(id, item.data.permalink # <<>>, item.data.replies)

\* processComments with a fault: the 'more' items are dropped.
RECURSIVE processCommentsSkipMore(_)
processCommentsSkipMore(cs) ==
    IF cs = <<>> THEN <<>>
    ELSE LET commentData == Head(cs).data
         IN  IF Head(cs).kind = "more" THEN processCommentsSkipMore(Tail(cs))
             ELSE << [id |-> commentData.id,
                      permalink |-> IF commentData.permalink # <<>>
                                    THEN Origin \o commentData.permalink
                                    ELSE JsNull,
                      replies |-> IF commentData.replies.listing
                                  THEN processCommentsSkipMore(commentData.replies.children)
                                  ELSE <<>>] >>
                  \o processCommentsSkipMore(Tail(cs))

\* function processComments(comments): comments.map
RECURSIVE processComments(_)
processComments(cs) ==
    [k \in 1..Len(cs) |->
        IF cs[k].kind = "more"
        THEN [type |-> "more",
              count |-> cs[k].data.count,
              children |-> cs[k].data.children]
        ELSE LET commentData == cs[k].data
             IN  [id |-> commentData.id,
                  permalink |-> IF commentData.permalink # <<>>
                                THEN Origin \o commentData.permalink
                                ELSE JsNull,
                  replies |-> IF commentData.replies.listing
                              THEN processComments(commentData.replies.children)
                              ELSE <<>>]]

\* The post object of the output
NormalizePost(p) ==
    [id |-> p.id,
     permalink |-> IF p.permalink # <<>> THEN Origin \o p.permalink ELSE JsNull]

NoRawPost == [id |-> <<>>, permalink |-> <<>>]
RawPosts == {[id |-> postId, permalink |-> Path(postId)],
             [id |-> postId, permalink |-> <<>>]}

-----------------------------------------------------------------------------
\* mysql.ts: isWriteOperation

\* A query is a sequence of tokens, and the string the code sees is the
\* sequence of their characters: a write keyword in upper and in lower case, a
\* space, a tab, a semicolon, an empty comment and the words of a statement
\* that reads
Keyword == <<"D", "R", "O", "P">>
KeywordLower == <<"d", "r", "o", "p">>
Space == <<" ">>
Tab == <<"\t">>
Semicolon == <<";">>
Comment == <<"/", "*", "*", "/">>
ShowTablesToken == <<"s", "h", "o", "w", " ", "T", "A", "B", "L", "E", "S">>
Tokens == {Keyword, KeywordLower, Space, Tab, Semicolon, Comment, ShowTablesToken}

RECURSIVE Chars(_)
Chars(tokens) == IF tokens = <<>> THEN <<>> ELSE Head(tokens) \o Chars(Tail(tokens))

Queries == UNION {[1..n -> Tokens] : n \in 0..MaxTokens}

\* String.prototype.toUpperCase, on the letters of the tokens
UpperOf(c) ==
    CASE c = "d" -> "D" [] c = "r" -> "R" [] c = "o" -> "O" [] c = "p" -> "P"
      [] c = "s" -> "S" [] c = "h" -> "H" [] c = "w" -> "W"
      [] OTHER -> c
toUpperCase(str) == [k \in 1..Len(str) |-> UpperOf(str[k])]

\* String.prototype.trim
IsWhitespace(c) == c \in {" ", "\t", "\n"}
RECURSIVE trimStart(_)
trimStart(str) ==
    IF str # <<>> /\ IsWhitespace(Head(str)) THEN trimStart(Tail(str)) ELSE str
RECURSIVE trimEnd(_)
trimEnd(str) ==
    IF str # <<>> /\ IsWhitespace(str[Len(str)])
    THEN trimEnd(SubSeq(str, 1, Len(str) - 1))
    ELSE str
trim(str) == trimEnd(trimStart(str))

\* String.prototype.includes
includes(str, part) ==
    \E k \in 1..(Len(str) - Len(part) + 1) : SubSeq(str, k, k + Len(part) - 1) = part

writeOperations ==
    << <<"C", "R", "E", "A", "T", "E">>, <<"A", "L", "T", "E", "R">>,
       <<"D", "R", "O", "P">>, <<"I", "N", "S", "E", "R", "T">>,
       <<"U", "P", "D", "A", "T", "E">>, <<"D", "E", "L", "E", "T", "E">>,
       <<"T", "R", "U", "N", "C", "A", "T", "E">>, <<"M", "E", "R", "G", "E">>,
       <<"R", "E", "P", "L", "A", "C", "E">>, <<"G", "R", "A", "N", "T">>,
       <<"R", "E", "V", "O", "K", "E">>, <<"C", "A", "L", "L">> >>

isWriteOperation(query) ==
    LET normalizedQuery == toUpperCase(trim(query))
    IN  \E k \in 1..Len(writeOperations) :
            LET operation == writeOperations[k]
            IN  \/ startsWith(normalizedQuery, operation)
                \/ includes(normalizedQuery, Space \o operation \o Space)

ShowTables ==
    <<"S", "H", "O", "W", " ", "T", "A", "B", "L", "E", "S">>

-----------------------------------------------------------------------------
\* reddit.ts and reddit-pushapi.ts: the retrying tools

maxRetries == 3
BaseDelay == 1000

NoTool == [file |-> "none", name |-> "none"]
Tools == [file : {"reddit", "pushapi"},
          name : {"searchReddit", "getRedditComments", "getRedditPost"}]

\* HTTP statuses a request is answered with
Statuses == {200, 404, 429, 500}
\* The layout of a response body: no body; the item list missing or of the wrong
\* type; (reddit.ts) a listing wrapper without data.children or without a first
\* child; an empty item list; a populated item list
Shapes == {"nodata", "notlist", "nochildren", "empty", "ok"}
\* axios failures without a response (validateStatus: null: a status never rejects)
RequestErrors == {"timeout of 60000ms exceeded", "Network Error"}

NoResponse == [status |-> 0, shape |-> "none"]
NoMessage == [prefix |-> "", cause |-> "", status |-> 0]
NoOutcome == [kind |-> "none", message |-> NoMessage, content |-> "none"]
NoPost == [id |-> <<>>, title |-> "", selftext |-> "", num_comments |-> 0]

\* new Error(`HTTP error ${response.status}: ${response.statusText}`): no .response
HttpError(status) ==
    [isUserError |-> FALSE, response |-> 0,
     message |-> [prefix |-> "", cause |-> "HTTP error", status |-> status]]
\* the error axios rejects with when no response arrived
AxiosError(cause) ==
    [isUserError |-> FALSE, response |-> 0,
     message |-> [prefix |-> "", cause |-> cause, status |-> 0]]
\* a TypeError raised by reading a property of undefined
TypeError ==
    [isUserError |-> FALSE, response |-> 0,
     message |-> [prefix |-> "", cause |-> "Cannot read properties of undefined", status |-> 0]]
UserError(text) ==
    [isUserError |-> TRUE, response |-> 0,
     message |-> [prefix |-> text, cause |-> "", status |-> 0]]

\* The value returned: built from the item list of the response body, or the
\* fixed reply of searchReddit (results: [], count: 0, "No results found ...")
Result == [kind |-> "result", message |-> NoMessage, content |-> "items"]
NoResults == [kind |-> "result", message |-> NoMessage, content |-> "noResults"]
Thrown(error) == [kind |-> "error", message |-> error.message, content |-> "none"]

\* The prefix of the UserError the catch block of a tool builds from error.message
FailedPrefix(t) ==
    IF t.file = "reddit"
    THEN CASE t.name = "searchReddit" -> "Failed to search Reddit: "
           [] t.name = "getRedditComments" -> "Failed to get comments: "
           [] OTHER -> "Failed to get post: "
    ELSE CASE t.name = "searchReddit" -> "Failed to search Reddit via PullPush: "
           [] t.name = "getRedditComments" -> "Failed to get comments via PullPush: "
           [] OTHER -> "Failed to get post via PullPush: "

\* Catch with a fault: the UserError names the operation but not error.message.
CatchGeneric(t, error) ==
    IF error.isUserError THEN error
    ELSE UserError(FailedPrefix(t))

\* The catch block of a tool: the error it throws to the caller
Catch(t, error) ==
    IF error.isUserError THEN error
    ELSE IF error.response # 0 /\ (t.name = "searchReddit" \/ t.file = "reddit")
    THEN IF t.name = "searchReddit"
         THEN CASE error.response = 500 ->
                     UserError(IF t.file = "reddit"
                               THEN "Reddit API server error (500). Please try again later."
                               ELSE "PullPush API server error (500). Please try again later.")
                [] error.response = 429 ->
                     UserError(IF t.file = "reddit"
                               THEN "Rate limit exceeded (429). Too many requests to the Reddit API."
                               ELSE "Rate limit exceeded (429). Too many requests to the PullPush API.")
                [] error.response = 404 ->
                     UserError(IF t.file = "reddit"
                               THEN "Reddit API endpoint not found (404). Please check your parameters."
                               ELSE "PullPush API endpoint not found (404). Please check your parameters.")
                [] OTHER ->
                     [isUserError |-> TRUE, response |-> 0,
                      message |-> [prefix |-> FailedPrefix(t), cause |-> "HTTP error",
                                   status |-> error.response]]
         ELSE IF error.response = 404
              THEN UserError("Post with ID ${args.postId} not found")
              ELSE [isUserError |-> TRUE, response |-> 0,
                    message |-> [prefix |-> FailedPrefix(t), cause |-> "HTTP error",
                                 status |-> error.response]]
    ELSE [isUserError |-> TRUE, response |-> 0,
          message |-> [prefix |-> FailedPrefix(t), cause |-> error.message.cause,
                       status |-> error.message.status]]

\* backoffDelay with a fault: the exponent is the attempt count, not one less.
backoffDelayOffByOne(n) == BaseDelay * 2 ^ n

\* const delay = 1000 * Math.pow(2, retries - 1)
backoffDelay(n) == BaseDelay * 2 ^ (n - 1)

\* AttemptFails with a fault: a 4xx status other than 429 is thrown at once.
AttemptFailsTerminal4xx(error) ==
    /\ retries' = retries + 1
    /\ failures' = Append(failures, [at |-> now, error |-> error])
    /\ IF \/ retries + 1 >= maxRetries
          \/ (error.message.status \in 400..499 /\ error.message.status # 429)
       THEN /\ pc' = "done"
            /\ outcome' = Thrown(Catch(tool, error))
            /\ UNCHANGED <<delays, wakeAt>>
       ELSE /\ pc' = "backoff"
            /\ delays' = Append(delays, backoffDelay(retries + 1))
            /\ wakeAt' = now + backoffDelay(retries + 1)
            /\ UNCHANGED outcome

\* AttemptFails with a fault: the loop gives up one attempt early.
AttemptFailsEarly(error) ==
    /\ retries' = retries + 1
    /\ failures' = Append(failures, [at |-> now, error |-> error])
    /\ IF retries + 1 >= maxRetries - 1
       THEN /\ pc' = "done"
            /\ outcome' = Thrown(Catch(tool, error))
            /\ UNCHANGED <<delays, wakeAt>>
       ELSE /\ pc' = "backoff"
            /\ delays' = Append(delays, backoffDelay(retries + 1))
            /\ wakeAt' = now + backoffDelay(retries + 1)
            /\ UNCHANGED outcome

\* The catch block of the retry loop
AttemptFails(error) ==
    /\ retries' = retries + 1
    /\ failures' = Append(failures, [at |-> now, error |-> error])
    /\ IF retries + 1 >= maxRetries
       THEN /\ pc' = "done"
            /\ outcome' = Thrown(Catch(tool, error))
            /\ UNCHANGED <<delays, wakeAt>>
       ELSE /\ pc' = "backoff"
            /\ delays' = Append(delays, backoffDelay(retries + 1))
            /\ wakeAt' = now + backoffDelay(retries + 1)
            /\ UNCHANGED outcome

\* The checks between the retry loop and the output: the error thrown, or NoError
NoError == [isUserError |-> FALSE, response |-> 0, message |-> NoMessage]

\* ShapeCheck with a fault: the body is used as it comes.
ShapeCheckNone(t, shape) == NoError

ShapeCheck(t, shape) ==
    IF t.file = "reddit"
    THEN CASE t.name = "searchReddit" ->
                IF shape = "nodata" THEN UserError("No response received from Reddit API")
                ELSE NoError
           [] t.name = "getRedditComments" ->
                IF shape \in {"nodata", "notlist"}
                THEN UserError("Invalid response from Reddit API")
                ELSE IF shape = "nochildren" THEN TypeError
                ELSE NoError
           [] OTHER ->
                IF shape = "nodata" THEN UserError("No response received from Reddit API")
                ELSE IF shape \in {"notlist", "nochildren", "empty"}
                THEN UserError("Invalid response format from Reddit API")
                ELSE NoError
    ELSE CASE t.name = "searchReddit" ->
                IF shape = "nodata" THEN UserError("No response received from PullPush API")
                ELSE NoError
           [] t.name = "getRedditComments" ->
                IF shape \in {"nodata", "notlist"}
                THEN UserError("Invalid response from PullPush API or no comments found")
                ELSE NoError
           [] OTHER ->
                IF shape \in {"nodata", "notlist", "empty"}
                THEN UserError("Post with ID ${args.postId} not found in PullPush API")
                ELSE NoError

\* What a tool returns for a body that passed its checks: searchReddit answers
\* a body without data, or without the item list in it, with the fixed reply
Output(t, shape) ==
    IF t.name = "searchReddit" /\ shape \in {"notlist", "nochildren"}
    THEN NoResults
    ELSE Result

ShapesOf(t) == IF t.file = "reddit" THEN Shapes ELSE Shapes \ {"nochildren"}

\* The batches a PullPush comment search answers with in this specification
SampleBatches ==
    {<< [id |-> AllIds[1], parent_id |-> T3 \o postId],
        [id |-> AllIds[2], parent_id |-> T1 \o AllIds[1]] >>,
     << [id |-> AllIds[1], parent_id |-> T1 \o AbsentId] >>}

\* The comment listings reddit.ts getRedditComments is answered with in this
\* specification
SampleListings ==
    {<< RawComment(AllIds[1], TRUE, Replies(<< RawComment(AllIds[2], FALSE, NoReplies),
                                               RawMore(2, << <<"x">> >>) >>)),
        RawMore(5, << <<"x">>, <<"y">> >>) >>,
     << RawComment(AllIds[1], FALSE, Replies(<<>>)) >>}

-----------------------------------------------------------------------------
\* hacker-news.ts: getComments and getStories

\* The item store: item 0 is the story (getComments) or the story list
\* (getStories); its kids list names MaxKids items in descending order, the
\* first of them has MaxKids kids of its own, and the first of those has one.
StoryId == 0
HNItems == 0..(2 * MaxKids + 1)
Desc(hi, n) == [k \in 1..n |-> hi - k + 1]
Kids(i) ==
    IF i = StoryId THEN Desc(MaxKids, MaxKids)
    ELSE IF i = MaxKids THEN Desc(2 * MaxKids, MaxKids)
    ELSE IF i = 2 * MaxKids THEN <<2 * MaxKids + 1>>
    ELSE <<>>
Range(seq) == {seq[k] : k \in 1..Len(seq)}
Parent(i) == CHOOSE p \in HNItems : i \in Range(Kids(p))

\* What a request for an item is answered with: the item with its kids list,
\* the item without a kids list, null (no such item), or no usable answer
\* (axios rejects: network error, timeout, status outside 2xx)
Answers == {"ok", "leaf", "null", "fail"}
HNFailures == {"timeout of 10000ms exceeded", "Request failed with status code 500"}

Null == [null |-> TRUE, id |-> -1, replies |-> <<>>]

\* Item with a fault: a node without replies is given a placeholder for them.
ItemWithPlaceholder(i, reps) ==
    [null |-> FALSE, id |-> i,
     replies |-> IF reps = <<>>
                 THEN << [null |-> FALSE, id |-> -1, replies |-> <<>>] >>
                 ELSE reps]

Item(i, reps) == [null |-> FALSE, id |-> i, replies |-> reps]

NoHNOut == [kind |-> "none", message |-> NoMessage, items |-> <<>>, count |-> 0]

InitHNVars ==
    /\ hnTool = "none"
    /\ limit = 0
    /\ fetch = [i \in HNItems |-> "none"]
    /\ data = [i \in HNItems |-> "none"]
    /\ node = [i \in HNItems |-> Null]
    /\ hnIssued = [i \in HNItems |-> 0]
    /\ hnOut = NoHNOut

-----------------------------------------------------------------------------
\* The state before an invocation

InitRetryVars ==
    /\ tool = NoTool
    /\ pc = "idle"
    /\ retries = 0
    /\ response = NoResponse
    /\ now = 0
    /\ wakeAt = 0
    /\ issued = <<>>
    /\ failures = <<>>
    /\ delays = <<>>
    /\ postRequests = 0
    /\ post = NoPost
    /\ outcome = NoOutcome

InitTreeVars ==
    /\ comments = <<>>
    /\ commentsById = <<>>
    /\ topLevelComments = <<>>
    /\ replies = <<>>
    /\ treeOut = "none"

InvIds == 1..MaxInvocations
NoInvocation ==
    [pc |-> "idle", retries |-> 0, issued |-> 0, failed |-> 0,
     comments |-> <<>>, topLevelComments |-> <<>>, replies |-> <<>>]

InitConcVars == invocations = [i \in InvIds |-> NoInvocation]

NoSqlOut == [kind |-> "none", message |-> ""]
InitSqlVars ==
    /\ sqlQuery = <<>>
    /\ sqlPc = "idle"
    /\ sqlCalls = 0
    /\ sqlPassed = <<>>
    /\ sqlOpened = 0
    /\ sqlConn = 0
    /\ sqlEnded = <<>>
    /\ sqlErr = FALSE
    /\ sqlOut = NoSqlOut

NoYtOut == [kind |-> "none", error |-> "", message |-> ""]
InitYtVars ==
    /\ ytTool = "none"
    /\ ytKey = FALSE
    /\ ytPc = "idle"
    /\ ytRequests = 0
    /\ ytOut = NoYtOut
    /\ ytAnswer = "none"

NoMermaidOut == [kind |-> "none", message |-> ""]
InitMermaidVars ==
    /\ mmPc = "idle"
    /\ tempDir = 0
    /\ mmDirs = <<>>
    /\ mmCalls = 0
    /\ mmOut = NoMermaidOut

InitIoVars == InitSqlVars /\ InitYtVars /\ InitMermaidVars

InitProcVars ==
    /\ listing = <<>>
    /\ rawPost = NoRawPost
    /\ processedComments = <<>>
    /\ outPost = NormalizePost(NoRawPost)
    /\ procOut = "none"

\* execute: the first request is issued as the loop is entered
Invoke(t) ==
    /\ pc = "idle"
    /\ tool' = t
    /\ pc' = "inflight"
    /\ issued' = <<now>>
    /\ UNCHANGED <<retries, response, now, wakeAt, failures, delays, postRequests,
                   post, outcome>>
    /\ UNCHANGED treeVars
    /\ UNCHANGED hnVars
    /\ UNCHANGED concVars
    /\ UNCHANGED ioVars
    /\ UNCHANGED procVars

\* The request is answered with a status of 400 or more: throw inside the try
RespondError(status) ==
    /\ pc = "inflight"
    /\ status >= 400
    /\ response' = [status |-> status, shape |-> "nodata"]
    /\ AttemptFails(HttpError(status))
    /\ UNCHANGED <<tool, now, issued, postRequests, post>>
    /\ UNCHANGED treeVars
    /\ UNCHANGED hnVars
    /\ UNCHANGED concVars
    /\ UNCHANGED ioVars
    /\ UNCHANGED procVars

\* axios rejects: no response arrived
RequestFails(cause) ==
    /\ pc = "inflight"
    /\ AttemptFails(AxiosError(cause))
    /\ UNCHANGED <<tool, response, now, issued, postRequests, post>>
    /\ UNCHANGED treeVars
    /\ UNCHANGED hnVars
    /\ UNCHANGED concVars
    /\ UNCHANGED ioVars
    /\ UNCHANGED procVars

\* RespondOk with a fault: the checks of the body are made inside the try of the
\* loop, so that a body of the wrong layout counts as a failed attempt.
RespondOkChecksInsideTry(status, shape) ==
    /\ pc = "inflight"
    /\ status < 400
    /\ shape \in ShapesOf(tool)
    /\ response' = [status |-> status, shape |-> shape]
    /\ IF ShapeCheck(tool, shape) # NoError
       THEN AttemptFails(ShapeCheck(tool, shape))
       ELSE /\ pc' = "done"
            /\ outcome' = Output(tool, shape)
            /\ UNCHANGED <<retries, wakeAt, failures, delays>>
    /\ UNCHANGED <<tool, now, issued, postRequests, post>>
    /\ UNCHANGED <<treeVars, hnVars, concVars, ioVars, procVars>>

\* The request is answered with a status below 400: break, then the checks and,
\* but for the PullPush comments, the output
RespondOk(status, shape) ==
    /\ pc = "inflight"
    /\ status < 400
    /\ shape \in ShapesOf(tool)
    /\ response' = [status |-> status, shape |-> shape]
    /\ LET error == ShapeCheck(tool, shape)
       IN  IF error # NoError
           THEN /\ pc' = "done"
                /\ outcome' = Thrown(Catch(tool, error))
                /\ UNCHANGED <<postRequests, post>>
                /\ UNCHANGED treeVars
                /\ UNCHANGED procVars
           ELSE IF tool = [file |-> "pushapi", name |-> "getRedditComments"]
           THEN /\ pc' = "postInflight"
                /\ comments' \in (IF shape = "empty" THEN {<<>>} ELSE SampleBatches)
                /\ postRequests' = postRequests + 1
                /\ post' = [id |-> postId, title |-> "Unknown", selftext |-> "",
                            num_comments |-> Len(comments')]
                /\ UNCHANGED outcome
                /\ UNCHANGED <<commentsById, topLevelComments, replies, treeOut>>
                /\ UNCHANGED procVars
           ELSE IF tool = [file |-> "reddit", name |-> "getRedditComments"]
           THEN /\ pc' = "done"
                /\ listing' \in (IF shape = "empty" THEN {<<>>} ELSE SampleListings)
                /\ rawPost' \in RawPosts
                /\ processedComments' = processComments(listing')
                /\ outPost' = NormalizePost(rawPost')
                /\ procOut' = "result"
                /\ outcome' = Output(tool, shape)
                /\ UNCHANGED <<postRequests, post>>
                /\ UNCHANGED treeVars
           ELSE /\ pc' = "done"
                /\ outcome' = Output(tool, shape)
                /\ UNCHANGED <<postRequests, post>>
                /\ UNCHANGED treeVars
                /\ UNCHANGED procVars
    /\ UNCHANGED <<tool, retries, now, wakeAt, issued, failures, delays>>
    /\ UNCHANGED hnVars
    /\ UNCHANGED concVars
    /\ UNCHANGED ioVars

\* How the post request settles: status 200 with the post in a non-empty data
\* list (with or without a title), no response, another status, an empty data
\* list, or a body without data
PostFailures == {"networkError", "status500", "emptyData", "noData"}
PostAnswers == {"found", "foundUntitled"} \cup PostFailures

\* PostSettles with a fault: a post request that fails fails the invocation.
PostSettlesThrows(answer) ==
    /\ pc = "postInflight"
    /\ pc' = "done"
    /\ outcome' = IF answer \in PostFailures THEN Thrown(Catch(tool, TypeError)) ELSE Result
    /\ UNCHANGED <<tool, retries, response, now, wakeAt, issued, failures, delays,
                   postRequests, post>>
    /\ UNCHANGED <<treeVars, hnVars, concVars, ioVars, procVars>>

\* PullPush getRedditComments: the post request settles; then the tree is built
\* and the output returned
PostSettles(answer) ==
    /\ pc = "postInflight"
    /\ post' = CASE answer = "found" ->
                     [post EXCEPT !.title = "fetched", !.selftext = "fetched"]
                [] answer = "foundUntitled" -> [post EXCEPT !.selftext = "fetched"]
                [] OTHER -> post
    /\ LET byId == FirstPass(comments, 1, <<>>)
           acc == SecondPass(comments, 1, byId,
                      [top |-> <<>>, replies |-> [i \in DOMAIN comments |-> <<>>]])
       IN  /\ commentsById' = byId
           /\ topLevelComments' = acc.top
           /\ replies' = acc.replies
           /\ treeOut' = IF Circular(acc.top, acc.replies) THEN "error" ELSE "result"
           /\ outcome' = IF Circular(acc.top, acc.replies)
                         THEN Thrown(Catch(tool, TypeError))
                         ELSE Result
    /\ pc' = "done"
    /\ UNCHANGED <<tool, retries, response, now, wakeAt, issued, failures, delays,
                   postRequests, comments>>
    /\ UNCHANGED hnVars
    /\ UNCHANGED concVars
    /\ UNCHANGED ioVars
    /\ UNCHANGED procVars

\* The setTimeout of the backoff fires, no earlier than it is due, and the loop
\* issues the next request
Retry ==
    /\ pc = "backoff"
    /\ now >= wakeAt
    /\ pc' = "inflight"
    /\ issued' = Append(issued, now)
    /\ UNCHANGED <<tool, retries, response, now, wakeAt, failures, delays,
                   postRequests, post, outcome>>
    /\ UNCHANGED treeVars
    /\ UNCHANGED hnVars
    /\ UNCHANGED concVars
    /\ UNCHANGED ioVars
    /\ UNCHANGED procVars

\* Time passes while a request is in flight or a timer is pending
Tick ==
    /\ pc \in {"inflight", "backoff", "postInflight"}
    /\ now < MaxClock * (BaseDelay \div 2)
    /\ now' = now + (BaseDelay \div 2)
    /\ UNCHANGED <<tool, pc, retries, response, wakeAt, issued, failures, delays,
                   postRequests, post, outcome>>
    /\ UNCHANGED treeVars
    /\ UNCHANGED hnVars
    /\ UNCHANGED concVars
    /\ UNCHANGED ioVars
    /\ UNCHANGED procVars

InitRetry == InitRetryVars /\ InitTreeVars /\ InitHNVars /\ InitProcVars /\ InitConcVars /\ InitIoVars

NextRetry ==
    \/ \E t \in Tools : Invoke(t)
    \/ \E status \in Statuses : RespondError(status)
    \/ \E cause \in RequestErrors : RequestFails(cause)
    \/ \E status \in Statuses, shape \in Shapes : RespondOk(status, shape)
    \/ \E answer \in PostAnswers : PostSettles(answer)
    \/ Retry
    \/ Tick

SpecRetry == InitRetry /\ [][NextRetry]_vars

-----------------------------------------------------------------------------
\* hacker-news.ts: Promise.all, fetchComment, the handlers

\* PromiseAll with a fault: the results are collected last to first.
PromiseAllReversed(ids, values) == [k \in 1..Len(ids) |-> values[ids[Len(ids) + 1 - k]]]

\* Promise.all(ids.map(f)): the values, by position in ids
PromiseAll(ids, values) == [k \in 1..Len(ids) |-> values[ids[k]]]

\* filterBoolean with a fault: nothing is removed.
filterNothing(seq) == seq

\* .filter(Boolean)
IsTruthy(v) == ~v.null
filterBoolean(seq) == SelectSeq(seq, IsTruthy)

\* KidsOf with a fault: one child of a node is fetched, the others are not.
KidsOfCapped(answer, i) ==
    IF answer = "ok" /\ Kids(i) # <<>> THEN <<Kids(i)[1]>> ELSE <<>>

\* The kids list of the item a request was answered with
KidsOf(answer, i) == IF answer = "ok" THEN Kids(i) ELSE <<>>

\* The ids a settled root request expands to: story.kids, or
\* response.data.slice(0, limit)
RootIds(t, lim) == IF t = "getStories" THEN SubSeq(Kids(StoryId), 1, lim) ELSE Kids(StoryId)

\* A promise of fetchComment (or of the story fetch of getStories) has settled:
\* the promises awaiting it settle in turn. Promise.all rejects as soon as one
\* of its promises rejects, and resolves when the last of them has resolved.
RECURSIVE Propagate(_, _)
Propagate(S, i) ==
    IF i = StoryId THEN S
    ELSE LET p == Parent(i)
             ids == IF p = StoryId THEN RootIds(hnTool, limit) ELSE Kids(p)
         IN  IF S.fetch[p] # "waiting" THEN S
             ELSE IF S.fetch[i] = "rejected"
             THEN Propagate([S EXCEPT !.fetch[p] = "rejected"], p)
             ELSE IF \A k \in Range(ids) : S.fetch[k] = "resolved"
             THEN Propagate(
                    [S EXCEPT !.fetch[p] = "resolved",
                              !.node[p] =
                                  IF p = StoryId
                                  THEN Item(p, PromiseAll(ids, S.node))
                                  ELSE Item(p, filterBoolean(PromiseAll(ids, S.node)))],
                    p)
             ELSE S

\* HNCatch with a fault: a UserError is wrapped like any other error.
HNCatchWrapAll(t, error) ==
    [isUserError |-> TRUE, response |-> 0,
     message |-> [prefix |-> IF t = "getComments"
                             THEN "Failed to get Hacker News comments: "
                             ELSE "Failed to get Hacker News stories: ",
                  cause |-> IF error.isUserError THEN error.message.prefix
                            ELSE error.message.cause,
                  status |-> error.message.status]]

\* The catch block of a Hacker News tool
HNCatch(t, error) ==
    IF error.isUserError THEN error
    ELSE [isUserError |-> TRUE, response |-> 0,
          message |-> [prefix |-> IF t = "getComments"
                                  THEN "Failed to get Hacker News comments: "
                                  ELSE "Failed to get Hacker News stories: ",
                       cause |-> error.message.cause,
                       status |-> error.message.status]]

\* What the invocation returns or throws once the promise it awaits has settled
HNOutput(t, S, error) ==
    IF S.fetch[StoryId] = "rejected"
    THEN [kind |-> "error", message |-> HNCatch(t, error).message,
          items |-> <<>>, count |-> 0]
    ELSE IF S.fetch[StoryId] = "resolved"
    THEN [kind |-> "result", message |-> NoMessage,
          items |-> filterBoolean(S.node[StoryId].replies),
          count |-> Len(filterBoolean(S.node[StoryId].replies))]
    ELSE NoHNOut

\* One axios.get for each item whose fetch has just been started
Requested(before, after, n) ==
    [i \in HNItems |->
        IF before[i] = "none" /\ after[i] = "inflight" THEN n[i] + 1 ELSE n[i]]

\* execute: the request for the story, or for the story list, is issued
HNInvoke(t, lim) ==
    /\ hnTool = "none"
    /\ hnTool' = t
    /\ limit' = IF t = "getStories" THEN lim ELSE 0
    /\ fetch' = [fetch EXCEPT ![StoryId] = "inflight"]
    /\ hnIssued' = [hnIssued EXCEPT ![StoryId] = @ + 1]
    /\ UNCHANGED <<data, node, hnOut>>
    /\ UNCHANGED <<treeVars, retryVars, procVars, concVars, ioVars>>

\* The request of the story (or list) is answered or fails
RootSettles(answer, cause) ==
    /\ fetch[StoryId] = "inflight"
    /\ answer = "leaf" => hnTool = "getComments"
    /\ data' = [data EXCEPT ![StoryId] = answer]
    /\ LET ids == IF answer = "ok" THEN RootIds(hnTool, limit) ELSE <<>>
       IN  CASE answer = "fail" ->
                  /\ fetch' = [fetch EXCEPT ![StoryId] = "rejected"]
                  /\ hnOut' = [NoHNOut EXCEPT !.kind = "error",
                                  !.message = HNCatch(hnTool, AxiosError(cause)).message]
                  /\ UNCHANGED node
             [] answer = "null" ->
                  /\ fetch' = [fetch EXCEPT ![StoryId] = "rejected"]
                  /\ hnOut' = [NoHNOut EXCEPT !.kind = "error",
                                  !.message = HNCatch(hnTool,
                                      UserError(IF hnTool = "getComments"
                                                THEN "Story with ID ${storyId} not found"
                                                ELSE "Invalid response from Hacker News API")).message]
                  /\ UNCHANGED node
             [] answer \in {"ok", "leaf"} /\ ids = <<>> ->
                  /\ fetch' = [fetch EXCEPT ![StoryId] = "resolved"]
                  /\ node' = [node EXCEPT ![StoryId] = Item(StoryId, <<>>)]
                  /\ hnOut' = [NoHNOut EXCEPT !.kind = "result"]
             [] OTHER ->
                  /\ fetch' = [i \in HNItems |->
                                  IF i = StoryId THEN "waiting"
                                  ELSE IF i \in Range(ids) THEN "inflight"
                                  ELSE fetch[i]]
                  /\ UNCHANGED <<node, hnOut>>
    /\ hnIssued' = Requested(fetch, fetch', hnIssued)
    /\ UNCHANGED <<hnTool, limit>>
    /\ UNCHANGED <<treeVars, retryVars, procVars, concVars, ioVars>>

\* The request of fetchComment(i), or of a story of getStories, is answered or
\* fails; a comment with kids starts a fetchComment for each of them
ItemSettles(i, answer, cause) ==
    /\ i # StoryId
    /\ fetch[i] = "inflight"
    /\ answer = "leaf" => (hnTool = "getComments" /\ Kids(i) # <<>>)
    /\ data' = [data EXCEPT ![i] = answer]
    /\ LET ids == IF hnTool = "getComments" THEN KidsOf(answer, i) ELSE <<>>
           S == CASE answer = "fail" ->
                       [fetch |-> [fetch EXCEPT ![i] = "rejected"], node |-> node]
                  [] answer = "null" ->
                       [fetch |-> [fetch EXCEPT ![i] = "resolved"], node |-> node]
                  [] answer \in {"ok", "leaf"} /\ ids = <<>> ->
                       [fetch |-> [fetch EXCEPT ![i] = "resolved"],
                        node |-> [node EXCEPT ![i] = Item(i, <<>>)]]
                  [] OTHER ->
                       [fetch |-> [j \in HNItems |->
                                      IF j = i THEN "waiting"
                                      ELSE IF j \in Range(ids) THEN "inflight"
                                      ELSE fetch[j]],
                        node |-> node]
           T == IF S.fetch[i] \in {"resolved", "rejected"} THEN Propagate(S, i) ELSE S
       IN  /\ fetch' = T.fetch
           /\ node' = T.node
           /\ hnOut' = IF hnOut.kind = "none"
                       THEN HNOutput(hnTool, T, AxiosError(cause))
                       ELSE hnOut
           /\ hnIssued' = Requested(fetch, T.fetch, hnIssued)
    /\ UNCHANGED <<hnTool, limit>>
    /\ UNCHANGED <<treeVars, retryVars, procVars, concVars, ioVars>>

InitHN == InitHNVars /\ InitTreeVars /\ InitRetryVars /\ InitProcVars /\ InitConcVars /\ InitIoVars

NextHN ==
    \/ \E t \in {"getComments", "getStories"}, lim \in 0..MaxKids : HNInvoke(t, lim)
    \/ \E answer \in Answers, cause \in HNFailures : RootSettles(answer, cause)
    \/ \E i \in HNItems, answer \in Answers, cause \in HNFailures :
            ItemSettles(i, answer, cause)

SpecHN == InitHN /\ [][NextHN]_vars

\* Every axios.get settles: it is answered, or it is rejected by its timeout of
\* 10 s at the latest
SpecHNFair == InitHN /\ [][NextHN]_vars /\ WF_vars(NextHN)

-----------------------------------------------------------------------------
\* The tree build on its own, for every batch within the bounds

InitTree ==
    /\ \E n \in 0..MaxBatch : \E f \in IdChoices(n), ps \in [1..n -> ParentRefs] :
            comments = Batch(f, ps)
    /\ commentsById = <<>>
    /\ topLevelComments = <<>>
    /\ replies = <<>>
    /\ treeOut = "none"
    /\ InitRetryVars
    /\ InitHNVars
    /\ InitProcVars
    /\ InitConcVars /\ InitIoVars

\* BuildCommentTree with a fault: the replies are attached to the fetched items.
BuildCommentTreeInPlace ==
    /\ treeOut = "none"
    /\ LET byId == FirstPass(comments, 1, <<>>)
           acc == SecondPass(comments, 1, byId,
                      [top |-> <<>>, replies |-> [i \in DOMAIN comments |-> <<>>]])
       IN  /\ commentsById' = byId
           /\ topLevelComments' = acc.top
           /\ replies' = acc.replies
           /\ treeOut' = IF Circular(acc.top, acc.replies) THEN "error" ELSE "result"
           /\ comments' = [k \in DOMAIN comments |->
                              [id |-> comments[k].id,
                               parent_id |-> comments[k].parent_id,
                               replies |-> acc.replies[k]]]
    /\ UNCHANGED retryVars
    /\ UNCHANGED <<hnVars, procVars, concVars, ioVars>>

BuildCommentTree ==
    /\ treeOut = "none"
    /\ LET byId == FirstPass(comments, 1, <<>>)
           acc == SecondPass(comments, 1, byId,
                      [top |-> <<>>, replies |-> [i \in DOMAIN comments |-> <<>>]])
       IN  /\ commentsById' = byId
           /\ topLevelComments' = acc.top
           /\ replies' = acc.replies
           /\ treeOut' = IF Circular(acc.top, acc.replies) THEN "error" ELSE "result"
    /\ UNCHANGED comments
    /\ UNCHANGED retryVars
    /\ UNCHANGED hnVars
    /\ UNCHANGED concVars
    /\ UNCHANGED ioVars
    /\ UNCHANGED procVars

NextTree == BuildCommentTree

SpecTree == InitTree /\ [][NextTree]_vars

-----------------------------------------------------------------------------
\* The normalization of reddit.ts on its own, for every listing within the bounds

InitProcess ==
    /\ \E n \in 0..MaxListing : \E f \in [1..n -> ItemShapes] :
            listing = [k \in 1..n |-> WithId(f[k], AllIds[k])]
    /\ rawPost \in RawPosts
    /\ processedComments = <<>>
    /\ outPost = NormalizePost(NoRawPost)
    /\ procOut = "none"
    /\ InitTreeVars
    /\ InitRetryVars
    /\ InitHNVars
    /\ InitConcVars /\ InitIoVars

\* const processedComments = processComments(comments), and the output
ProcessResponse ==
    /\ procOut = "none"
    /\ processedComments' = processComments(listing)
    /\ outPost' = NormalizePost(rawPost)
    /\ procOut' = "result"
    /\ UNCHANGED <<listing, rawPost>>
    /\ UNCHANGED <<treeVars, retryVars, hnVars, concVars, ioVars>>

NextProcess == ProcessResponse

SpecProcess == InitProcess /\ [][NextProcess]_vars

-----------------------------------------------------------------------------
\* reddit-pushapi.ts getRedditComments: invocations that run at the same time.
\* retries, response, commentsById and topLevelComments are locals of execute.

\* The batches the comment search of invocation i is answered with: a root
\* child of its own, alone or with a reply to it
ConcBatches(i) ==
    {<< [id |-> AllIds[i], parent_id |-> T3 \o postId] >>,
     << [id |-> AllIds[i] \o <<"r">>, parent_id |-> T1 \o AllIds[i]],
        [id |-> AllIds[i], parent_id |-> T3 \o postId] >>}

\* countFailure with a fault: retries is one counter for all the invocations.
countFailureShared(invs, i) ==
    [j \in DOMAIN invs |->
        [invs[j] EXCEPT !.retries = @ + 1,
                        !.failed = IF j = i THEN @ + 1 ELSE @]]

\* retries++ in the catch block of invocation i
countFailure(invs, i) ==
    [invs EXCEPT ![i].retries = @ + 1, ![i].failed = @ + 1]

\* execute: the first request of invocation i
ConcInvoke(i) ==
    /\ invocations[i].pc = "idle"
    /\ invocations' = [invocations EXCEPT ![i].pc = "inflight", ![i].issued = 1]
    /\ UNCHANGED <<treeVars, retryVars, hnVars, procVars, ioVars>>

\* The request of invocation i fails or is answered with a status of 400 or
\* more: throw error after maxRetries failures, else wait and go round the loop
ConcAttemptFails(i) ==
    /\ invocations[i].pc = "inflight"
    /\ LET counted == countFailure(invocations, i)
       IN  invocations' =
               [counted EXCEPT ![i].pc = IF counted[i].retries >= maxRetries
                                        THEN "error" ELSE "backoff"]
    /\ UNCHANGED <<treeVars, retryVars, hnVars, procVars, ioVars>>

\* The backoff of invocation i is over: its next request
ConcRetry(i) ==
    /\ invocations[i].pc = "backoff"
    /\ invocations' = [invocations EXCEPT ![i].pc = "inflight", ![i].issued = @ + 1]
    /\ UNCHANGED <<treeVars, retryVars, hnVars, procVars, ioVars>>

\* The request of invocation i is answered with a batch: the tree is built in
\* its own commentsById and topLevelComments, and returned
ConcRespondOk(i, batch) ==
    /\ invocations[i].pc = "inflight"
    /\ LET byId == FirstPass(batch, 1, <<>>)
           acc == SecondPass(batch, 1, byId,
                      [top |-> <<>>, replies |-> [k \in DOMAIN batch |-> <<>>]])
       IN  invocations' = [invocations EXCEPT ![i].pc = "result",
                                              ![i].comments = batch,
                                              ![i].topLevelComments = acc.top,
                                              ![i].replies = acc.replies]
    /\ UNCHANGED <<treeVars, retryVars, hnVars, procVars, ioVars>>

InitConcurrent ==
    InitConcVars /\ InitIoVars /\ InitTreeVars /\ InitRetryVars /\ InitHNVars /\ InitProcVars

NextConcurrent ==
    \E i \in InvIds :
        \/ ConcInvoke(i)
        \/ ConcAttemptFails(i)
        \/ ConcRetry(i)
        \/ \E batch \in ConcBatches(i) : ConcRespondOk(i, batch)

SpecConcurrent == InitConcurrent /\ [][NextConcurrent]_vars

-----------------------------------------------------------------------------
\* mysql.ts: execute_sql and executeQuery

SqlUserError(text) == [kind |-> "userError", message |-> text]
SqlResult == [kind |-> "result", message |-> ""]
WriteDenied ==
    SqlUserError("Write operations (CREATE, ALTER, DROP, INSERT, UPDATE, DELETE, etc.) are not permitted for security reasons.")
\* the catch block of execute_sql
SqlCatch == SqlUserError("Error executing query: ${errorMessage}")

\* execute: the checks on args.query, then executeQuery up to createConnection
ExecuteSql(q) ==
    /\ sqlPc = "idle"
    /\ sqlCalls < MaxCalls
    /\ sqlCalls' = sqlCalls + 1
    /\ sqlQuery' = Chars(q)
    /\ sqlErr' = FALSE
    /\ sqlConn' = 0
    /\ IF Chars(q) = <<>>
       THEN /\ sqlPc' = "done"
            /\ sqlOut' = SqlUserError("Query is required")
            /\ sqlPassed' = <<>>
       ELSE IF isWriteOperation(Chars(q))
       THEN /\ sqlPc' = "done"
            /\ sqlOut' = WriteDenied
            /\ sqlPassed' = <<>>
       ELSE /\ sqlPc' = "connecting"
            /\ sqlOut' = NoSqlOut
            /\ sqlPassed' = IF toUpperCase(trim(Chars(q))) = ShowTables
                             THEN <<ShowTables \o Semicolon>>
                             ELSE <<Chars(q)>>
    /\ UNCHANGED <<sqlOpened, sqlEnded>>
    /\ UNCHANGED <<treeVars, retryVars, hnVars, procVars, concVars, ytVars, mermaidVars>>

\* mysql.createConnection resolves with a new connection, or rejects
ConnectionSettles(ok) ==
    /\ sqlPc = "connecting"
    /\ IF ok
       THEN /\ sqlOpened' = sqlOpened + 1
            /\ sqlConn' = sqlOpened + 1
            /\ sqlEnded' = Append(sqlEnded, 0)
            /\ sqlPc' = "setTimeout"
            /\ UNCHANGED sqlOut
       ELSE /\ sqlPc' = "done"
            /\ sqlOut' = SqlCatch
            /\ UNCHANGED <<sqlOpened, sqlConn, sqlEnded>>
    /\ UNCHANGED <<sqlQuery, sqlCalls, sqlPassed, sqlErr>>
    /\ UNCHANGED <<treeVars, retryVars, hnVars, procVars, concVars, ytVars, mermaidVars>>

\* SET SESSION MAX_EXECUTION_TIME is answered, or fails: finally
SetTimeoutSettles(ok) ==
    /\ sqlPc = "setTimeout"
    /\ sqlPc' = IF ok THEN "query" ELSE "finally"
    /\ sqlErr' = ~ok
    /\ UNCHANGED <<sqlQuery, sqlCalls, sqlPassed, sqlOpened, sqlConn, sqlEnded, sqlOut>>
    /\ UNCHANGED <<treeVars, retryVars, hnVars, procVars, concVars, ytVars, mermaidVars>>

\* QuerySettles with a fault: the connection is ended after a query that
\* succeeded only.
QuerySettlesNoFinally(ok) ==
    /\ sqlPc = "query"
    /\ sqlPc' = IF ok THEN "finally" ELSE "done"
    /\ sqlErr' = ~ok
    /\ sqlOut' = IF ok THEN sqlOut ELSE SqlCatch
    /\ UNCHANGED <<sqlQuery, sqlCalls, sqlPassed, sqlOpened, sqlConn, sqlEnded>>
    /\ UNCHANGED <<treeVars, retryVars, hnVars, procVars, concVars, ytVars, mermaidVars>>

\* connection.query(query) is answered, or fails: finally
QuerySettles(ok) ==
    /\ sqlPc = "query"
    /\ sqlPc' = "finally"
    /\ sqlErr' = ~ok
    /\ UNCHANGED <<sqlQuery, sqlCalls, sqlPassed, sqlOpened, sqlConn, sqlEnded, sqlOut>>
    /\ UNCHANGED <<treeVars, retryVars, hnVars, procVars, concVars, ytVars, mermaidVars>>

\* finally: await connection.end(); then executeQuery returns or rethrows, and
\* execute_sql returns the rows or throws the UserError of its catch block
EndSettles ==
    /\ sqlPc = "finally"
    /\ sqlEnded' = [sqlEnded EXCEPT ![sqlConn] = @ + 1]
    /\ sqlPc' = "done"
    /\ sqlOut' = IF sqlErr THEN SqlCatch ELSE SqlResult
    /\ UNCHANGED <<sqlQuery, sqlCalls, sqlPassed, sqlOpened, sqlConn, sqlErr>>
    /\ UNCHANGED <<treeVars, retryVars, hnVars, procVars, concVars, ytVars, mermaidVars>>

\* The result or the error of the invocation is sent to the client and the
\* locals of the invocation are gone; the connections' history remains.
SqlRespond ==
    /\ sqlPc = "done"
    /\ sqlPc' = "idle"
    /\ sqlQuery' = <<>>
    /\ sqlPassed' = <<>>
    /\ sqlConn' = 0
    /\ sqlErr' = FALSE
    /\ sqlOut' = NoSqlOut
    /\ UNCHANGED <<sqlCalls, sqlOpened, sqlEnded>>
    /\ UNCHANGED <<treeVars, retryVars, hnVars, procVars, concVars, ytVars, mermaidVars>>

InitSql ==
    /\ InitSqlVars /\ InitYtVars /\ InitMermaidVars
    /\ InitTreeVars /\ InitRetryVars /\ InitHNVars /\ InitProcVars /\ InitConcVars

NextSql ==
    \/ \E q \in Queries : ExecuteSql(q)
    \/ \E ok \in BOOLEAN : ConnectionSettles(ok)
    \/ \E ok \in BOOLEAN : SetTimeoutSettles(ok)
    \/ \E ok \in BOOLEAN : QuerySettles(ok)
    \/ EndSettles
    \/ SqlRespond

SpecSql == InitSql /\ [][NextSql]_vars

-----------------------------------------------------------------------------
\* unnamed/part_001: the YouTube tools

Transcript == "youtubeTranscript"
DataApiTools ==
    {"youtubeVideoInfo", "youtubeVideoComments", "youtubeSearch",
     "youtubeChannelInfo", "youtubeChannelVideos", "youtubeCommentReplies",
     "youtubeVideoCategories", "youtubeCaptionsList", "youtubePopularVideos",
     "youtubeGetChannelByUsername", "youtubeSearchChannels", "youtubeVideoStats"}
YoutubeTools == DataApiTools \cup {Transcript}

\* How a request settles: a body with items, a body without, a body that is
\* null, no response at all, or a status that axios rejects
YtAnswers == {"items", "noItems", "nullBody", "networkError", "403", "404", "500"}
YtFailures == {"networkError", "403", "404", "500"}

\* error.message of what the try block threw
YtMessage(answer) ==
    CASE answer = "networkError" -> "Network Error"
      [] answer \in {"403", "404", "500"} -> "Request failed with status code " \o answer
      [] answer = "nullBody" -> "Cannot read properties of null"
      [] OTHER -> ""

YtReturned(error, message) == [kind |-> "returned", error |-> error, message |-> message]
KeyMissing == YtReturned("YouTube API key not found in environment variables", "")
InvalidUrl == YtReturned("Invalid YouTube URL", "Could not extract video ID from the provided URL")

\* YtCatch with a fault: the catch block throws again.
YtCatchRethrows(t, message) ==
    [kind |-> "raised", error |-> "YouTube API error", message |-> message]

\* the catch block of a tool
YtCatch(t, message) ==
    YtReturned(IF t = Transcript THEN "Transcript retrieval error" ELSE "YouTube API error",
               message)

\* execute, up to the first await
YtInvoke(t, validUrl) ==
    /\ ytPc \in {"idle", "done"}
    /\ ytRequests < MaxRequests
    /\ ytTool' = t
    /\ ytAnswer' = "none"
    /\ IF t = Transcript
       THEN IF validUrl
            THEN /\ ytPc' = "inflight"
                 /\ ytOut' = NoYtOut
                 /\ UNCHANGED ytRequests
            ELSE /\ ytPc' = "done"
                 /\ ytOut' = InvalidUrl
                 /\ UNCHANGED ytRequests
       ELSE IF ~ytKey
            THEN /\ ytPc' = "done"
                 /\ ytOut' = KeyMissing
                 /\ UNCHANGED ytRequests
            ELSE /\ ytPc' = "inflight"
                 /\ ytOut' = NoYtOut
                 /\ ytRequests' = ytRequests + 1
    /\ UNCHANGED ytKey
    /\ UNCHANGED <<treeVars, retryVars, hnVars, procVars, concVars, sqlVars, mermaidVars>>

\* axios.get (fetchTranscript) settles; the rest of the try block, or the catch
YtSettles(answer) ==
    /\ ytPc = "inflight"
    /\ ytPc' = "done"
    /\ ytAnswer' = answer
    /\ ytOut' = IF answer \in {"items", "noItems"}
                THEN YtReturned("", "")
                ELSE YtCatch(ytTool, YtMessage(answer))
    /\ UNCHANGED <<ytTool, ytKey, ytRequests>>
    /\ UNCHANGED <<treeVars, retryVars, hnVars, procVars, concVars, sqlVars, mermaidVars>>

InitYoutube ==
    /\ ytKey \in BOOLEAN
    /\ ytTool = "none" /\ ytPc = "idle" /\ ytRequests = 0
    /\ ytOut = NoYtOut /\ ytAnswer = "none"
    /\ InitSqlVars /\ InitMermaidVars
    /\ InitTreeVars /\ InitRetryVars /\ InitHNVars /\ InitProcVars /\ InitConcVars

NextYoutube ==
    \/ \E t \in YoutubeTools, validUrl \in BOOLEAN : YtInvoke(t, validUrl)
    \/ \E answer \in YtAnswers : YtSettles(answer)

SpecYoutube == InitYoutube /\ [][NextYoutube]_vars

-----------------------------------------------------------------------------
\* mermaid.ts: generateMermaidDiagram

InputFile == "input.mmd"
CssFile == "custom.css"
OutputFile == "output.png"

MermaidImage == [kind |-> "image", message |-> ""]
\* the catch block: throw new Error(`Failed to generate diagram: ${error.message}`)
MermaidCatch(cause) == [kind |-> "error", message |-> "Failed to generate diagram: " \o cause]

\* An await inside the try rejects: the catch block
MermaidFails(cause) ==
    /\ mmPc' = "done"
    /\ mmOut' = MermaidCatch(cause)
    /\ UNCHANGED <<tempDir, mmDirs, mmCalls>>

\* A file is written into the directory of the invocation
WithFile(file) == [mmDirs EXCEPT ![tempDir].files = @ \cup {file}]

\* execute, up to fs.mkdtemp
GenerateMermaidDiagram ==
    /\ mmPc \in {"idle", "done"}
    /\ mmCalls < MaxRenders
    /\ mmCalls' = mmCalls + 1
    /\ mmPc' = "mkdtemp"
    /\ tempDir' = 0
    /\ mmOut' = NoMermaidOut
    /\ UNCHANGED mmDirs
    /\ UNCHANGED <<treeVars, retryVars, hnVars, procVars, concVars, sqlVars, ytVars>>

\* fs.mkdtemp resolves with a new directory, or rejects
MkdtempSettles(ok) ==
    /\ mmPc = "mkdtemp"
    /\ IF ok
       THEN /\ mmDirs' = Append(mmDirs, [exists |-> TRUE, files |-> {}])
            /\ tempDir' = Len(mmDirs) + 1
            /\ mmPc' = "writeInput"
            /\ UNCHANGED <<mmOut, mmCalls>>
       ELSE MermaidFails("ENOSPC")
    /\ UNCHANGED <<treeVars, retryVars, hnVars, procVars, concVars, sqlVars, ytVars>>

\* fs.writeFile(inputFile, cleanedDiagram)
WriteInputSettles(ok) ==
    /\ mmPc = "writeInput"
    /\ IF ok
       THEN /\ mmDirs' = WithFile(InputFile)
            /\ mmPc' = "writeCss"
            /\ UNCHANGED <<tempDir, mmOut, mmCalls>>
       ELSE MermaidFails("EIO: input.mmd")
    /\ UNCHANGED <<treeVars, retryVars, hnVars, procVars, concVars, sqlVars, ytVars>>

\* fs.writeFile(cssFile, customCSS)
WriteCssSettles(ok) ==
    /\ mmPc = "writeCss"
    /\ IF ok
       THEN /\ mmDirs' = WithFile(CssFile)
            /\ mmPc' = "mmdc"
            /\ UNCHANGED <<tempDir, mmOut, mmCalls>>
       ELSE MermaidFails("EIO: custom.css")
    /\ UNCHANGED <<treeVars, retryVars, hnVars, procVars, concVars, sqlVars, ytVars>>

\* execPromise(command): mmdc writes the image, or ends without one, or exits
\* with an error
MmdcSettles(result) ==
    /\ mmPc = "mmdc"
    /\ CASE result = "rendered" ->
                /\ mmDirs' = WithFile(OutputFile)
                /\ mmPc' = "readFile"
                /\ UNCHANGED <<tempDir, mmOut, mmCalls>>
         [] result = "noOutput" ->
                /\ mmPc' = "readFile"
                /\ UNCHANGED <<tempDir, mmDirs, mmOut, mmCalls>>
         [] OTHER -> MermaidFails("Command failed: npx mmdc")
    /\ UNCHANGED <<treeVars, retryVars, hnVars, procVars, concVars, sqlVars, ytVars>>

\* fs.readFile(outputFile)
ReadFileSettles(ok) ==
    /\ mmPc = "readFile"
    /\ ok => OutputFile \in mmDirs[tempDir].files
    /\ IF ok
       THEN /\ mmPc' = "rm"
            /\ UNCHANGED <<tempDir, mmDirs, mmOut, mmCalls>>
       ELSE MermaidFails(IF OutputFile \in mmDirs[tempDir].files
                         THEN "EIO: output.png" ELSE "ENOENT: output.png")
    /\ UNCHANGED <<treeVars, retryVars, hnVars, procVars, concVars, sqlVars, ytVars>>

\* fs.rm(tempDir, {recursive, force}).catch(() => {}), then the image is returned
RmSettles(ok) ==
    /\ mmPc = "rm"
    /\ mmDirs' = IF ok THEN [mmDirs EXCEPT ![tempDir] = [exists |-> FALSE, files |-> {}]]
                 ELSE mmDirs
    /\ mmPc' = "done"
    /\ mmOut' = MermaidImage
    /\ UNCHANGED <<tempDir, mmCalls>>
    /\ UNCHANGED <<treeVars, retryVars, hnVars, procVars, concVars, sqlVars, ytVars>>

InitMermaid ==
    /\ InitMermaidVars /\ InitSqlVars /\ InitYtVars
    /\ InitTreeVars /\ InitRetryVars /\ InitHNVars /\ InitProcVars /\ InitConcVars

NextMermaid ==
    \/ GenerateMermaidDiagram
    \/ \E ok \in BOOLEAN : MkdtempSettles(ok)
    \/ \E ok \in BOOLEAN : WriteInputSettles(ok)
    \/ \E ok \in BOOLEAN : WriteCssSettles(ok)
    \/ \E result \in {"rendered", "noOutput", "failed"} : MmdcSettles(result)
    \/ \E ok \in BOOLEAN : ReadFileSettles(ok)
    \/ \E ok \in BOOLEAN : RmSettles(ok)

SpecMermaid == InitMermaid /\ [][NextMermaid]_vars

-----------------------------------------------------------------------------
\* One invocation of any of the tools of reddit.ts, reddit-pushapi.ts and
\* hacker-news.ts

InitTools ==
    InitRetryVars /\ InitTreeVars /\ InitHNVars /\ InitProcVars /\ InitConcVars /\ InitIoVars

NextTools ==
    \/ hnTool = "none" /\ NextRetry
    \/ pc = "idle" /\ NextHN

SpecTools == InitTools /\ [][NextTools]_vars

-----------------------------------------------------------------------------
\* One invocation of any of the tools, or one of the two normalizations applied
\* to any response within the bounds

InitAll == InitTree \/ InitProcess

NextAll ==
    \/ (pc # "idle" \/ hnTool # "none" \/ InitTools) /\ NextTools
    \/ pc = "idle" /\ hnTool = "none" /\ rawPost = NoRawPost /\ NextTree
    \/ pc = "idle" /\ rawPost # NoRawPost /\ NextProcess

SpecAll == InitAll /\ [][NextAll]_vars

-----------------------------------------------------------------------------
\* Claims about the PullPush tree build (SpecTree)

Indices(batch) == [k \in 1..Len(batch) |-> k]
BatchIds(batch) == {batch[k].id : k \in 1..Len(batch)}
UniqueIds(batch) == \A j, k \in 1..Len(batch) : batch[j].id = batch[k].id => j = k
IsRootChild(k) == comments[k].parent_id = T3 \o postId
ResolvesInBatch(k) ==
    /\ startsWith(comments[k].parent_id, T1)
    /\ substring(comments[k].parent_id, 3) \in BatchIds(comments)
TopLevelIds == {comments[topLevelComments[j]].id : j \in 1..Len(topLevelComments)}

\* C1: every item of the batch whose parent_id resolves neither to the post nor
\* to an item of the batch (absent t1_ id, t3_ id of another post, missing or
\* unprefixed parent_id) is in the top-level comments list of the result.
C1_OrphanPromoted ==
    treeOut = "result" =>
        \A k \in 1..Len(comments) :
            (~IsRootChild(k) /\ ~ResolvesInBatch(k)) => comments[k].id \in TopLevelIds

\* C10 as stated: for every batch, the node objects of the items whose parent_id
\* is t3_<postId> are in the top-level list exactly once each, in batch order.
C10_RootChildrenOnceInOrder_AnyBatch ==
    treeOut = "result" =>
        SelectSeq(topLevelComments, IsRootChild) = SelectSeq(Indices(comments), IsRootChild)

\* C10 amended: for every batch with unique ids the handler returns a result in
\* which the items whose parent_id is t3_<postId> are in the top-level list
\* exactly once each, in batch order.
C10_RootChildrenOnceInOrder ==
    (treeOut # "none" /\ UniqueIds(comments)) =>
        /\ treeOut = "result"
        /\ SelectSeq(topLevelComments, IsRootChild) = SelectSeq(Indices(comments), IsRootChild)

\* A result for a batch of unique ids with two root children around a promoted orphan
C10_Witness ==
    /\ treeOut = "result"
    /\ Len(comments) = 3
    /\ UniqueIds(comments)
    /\ IsRootChild(1) /\ IsRootChild(3)
    /\ comments[2].parent_id = T1 \o AbsentId
    /\ topLevelComments = <<1, 2, 3>>

\* The items of the batch that name the item at index p as their t1_ parent
IsReplyTo(p) == [k \in 1..Len(comments) |-> comments[k].parent_id = T1 \o comments[p].id]
RepliesTo(p) == SelectSeq(Indices(comments), LAMBDA k : IsReplyTo(p)[k])
Occurrences(seq, x) == Cardinality({j \in 1..Len(seq) : seq[j] = x})

\* C11: for every batch with unique ids, an item whose parent_id is t1_<p> with
\* p the id of an item of the batch is exactly once in the replies of p's node
\* and in no other list; the replies of a node are its children in batch order,
\* whether a child comes before or after its parent in the batch.
C11_ChildLinkedToParent ==
    (treeOut # "none" /\ UniqueIds(comments)) =>
        /\ \A p \in 1..Len(comments) : replies[p] = RepliesTo(p)
        /\ \A k \in 1..Len(comments) :
                ResolvesInBatch(k) =>
                    /\ Occurrences(topLevelComments, k) = 0
                    /\ \A p \in 1..Len(comments) :
                            Occurrences(replies[p], k) =
                                IF comments[k].parent_id = T1 \o comments[p].id
                                THEN 1 ELSE 0

\* A parent between two of its children: one comes before it in the batch, the
\* other after it, and the parent is the only top-level comment
C11_Witness ==
    /\ treeOut = "result"
    /\ Len(comments) = 3
    /\ UniqueIds(comments)
    /\ comments[1].parent_id = T1 \o comments[2].id
    /\ IsRootChild(2)
    /\ comments[3].parent_id = T1 \o comments[2].id
    /\ topLevelComments = <<2>>
    /\ replies[2] = <<1, 3>>

-----------------------------------------------------------------------------
\* Claims about the retry loop (SpecRetry)

IsTerminal4xx(status) == status \in 400..499 /\ status # 429
StatusOf(k) == failures[k].error.message.status

\* C3 as stated: an attempt answered with a 4xx status other than 429 is the only
\* request of the invocation: the error is surfaced with no backoff and no retry.
C3_Terminal4xxNotRetried ==
    \A k \in 1..Len(failures) :
        IsTerminal4xx(StatusOf(k)) =>
            /\ Len(issued) = 1
            /\ delays = <<>>
            /\ pc = "done"

\* C3 amended: a 4xx status other than 429 is handled as any failed attempt: on
\* attempt 1 or 2 the loop backs off and issues another request, and the error
\* is surfaced only when it is the answer to the third request.
C3_4xxRetriedLikeAnyFailure ==
    \A k \in 1..Len(failures) :
        IsTerminal4xx(StatusOf(k)) =>
            IF k < 3
            THEN /\ Len(delays) >= k
                 /\ pc = "backoff" \/ Len(issued) > k
            ELSE /\ pc = "done"
                 /\ outcome.kind = "error"
                 /\ outcome.message.status = StatusOf(k)

\* A 404 on the first attempt was followed by a second request
C3_Witness ==
    /\ Len(failures) >= 1
    /\ StatusOf(1) = 404
    /\ Len(issued) = 2
    /\ pc = "inflight"

\* C4: an invocation issues at most 3 requests to its primary endpoint, and
\* after a failed attempt with fewer than 3 requests made it is waiting to issue
\* the next one: it gives up only after the third.
C4_RetryBudget ==
    /\ Len(issued) <= 3
    /\ Len(failures) <= Len(issued)
    /\ (Len(failures) = Len(issued) /\ Len(issued) \in 1..2) => pc = "backoff"
    /\ (pc = "done" /\ Len(failures) = Len(issued)) => Len(issued) = 3

\* Two failed attempts, a no-response error and a 500, and a third request in flight
C4_Witness ==
    /\ Len(issued) = 3
    /\ Len(failures) = 2
    /\ StatusOf(1) = 0
    /\ StatusOf(2) = 500
    /\ pc = "inflight"

\* C5: the delay waited after failed attempt k (k = 1, 2) is 1000 * 2^(k-1) ms;
\* attempt k+1 is not issued before it has elapsed; no delay precedes the first
\* attempt or follows the third failure; failing twice and then succeeding
\* returns the result after 1000 + 2000 ms of backoff.
C5_BackoffSchedule ==
    /\ Len(issued) >= 1 => issued[1] = 0
    /\ Len(delays) = IF Len(failures) < 3 THEN Len(failures) ELSE 2
    /\ \A k \in 1..Len(delays) : delays[k] = 1000 * 2 ^ (k - 1)
    /\ \A k \in 1..(Len(issued) - 1) :
            issued[k + 1] >= failures[k].at + 1000 * 2 ^ (k - 1)
    /\ (outcome.kind = "result" /\ Len(failures) = 2) =>
            /\ delays[1] + delays[2] = 1000 + 2000
            /\ now >= 1000 + 2000

\* Two failures, the second 500 ms after the second request, then a success
C5_Witness ==
    /\ outcome.kind = "result"
    /\ Len(failures) = 2
    /\ issued = <<0, 1000, 3500>>
    /\ failures[2].at = 1500
    /\ response.status = 200

\* C6: when all 3 attempts fail the invocation ends with one user error whose
\* message carries the status and message of the third attempt, and nothing of
\* a result (no post, no comments) was produced.
C6_ExhaustionSurfacesLastError ==
    (pc = "done" /\ Len(failures) = 3) =>
        /\ outcome.kind = "error"
        /\ outcome.message.prefix = FailedPrefix(tool)
        /\ outcome.message.cause = failures[3].error.message.cause
        /\ outcome.message.status = StatusOf(3)
        /\ treeOut = "none"
        /\ post = NoPost

\* A 404, a 429 and a 500: the error names status 500
C6_Witness ==
    /\ pc = "done"
    /\ Len(failures) = 3
    /\ StatusOf(1) = 404
    /\ StatusOf(2) = 429
    /\ StatusOf(3) = 500
    /\ outcome.message.status = 500
    /\ outcome.message.cause = "HTTP error"

\* The body layouts that do not match what a tool expects: for getRedditComments
\* of reddit.ts no array of two listing wrappers, or wrappers without
\* data.children; for the PullPush getRedditComments no data array; for
\* searchReddit no body, or a body without data or without the item list
Mismatching(t) ==
    IF t.name = "searchReddit" THEN {"nodata", "notlist", "nochildren"}
    ELSE IF t.name = "getRedditComments"
    THEN IF t.file = "reddit" THEN {"nodata", "notlist", "nochildren"}
         ELSE {"nodata", "notlist"}
    ELSE {}
AnsweredWithMismatch ==
    /\ pc = "done"
    /\ response.status < 400
    /\ response.shape \in Mismatching(tool)

\* C13 as stated: a response with a status below 400 whose body does not match
\* the expected layout ends the invocation in a user error.
C13_MismatchEndsInError ==
    AnsweredWithMismatch => outcome.kind = "error"

\* C13 amended: a response with a status below 400 whose body does not match the
\* expected layout never yields a result built from that body: the invocation
\* ends in a user error, except that searchReddit, given a body without data or
\* without the item list in it, returns the fixed reply with no results.
C13_MismatchNeverParsed ==
    AnsweredWithMismatch =>
        IF tool.name = "searchReddit" /\ response.shape # "nodata"
        THEN outcome = NoResults
        ELSE outcome.kind = "error" /\ outcome.content = "none"

\* getRedditComments of reddit.ts answered with status 200 and an object instead
\* of the array of listings: the invocation threw the UserError of line 375
C13_Witness ==
    /\ pc = "done"
    /\ tool = [file |-> "reddit", name |-> "getRedditComments"]
    /\ response = [status |-> 200, shape |-> "notlist"]
    /\ outcome = Thrown(UserError("Invalid response from Reddit API"))

-----------------------------------------------------------------------------
\* Claims about Hacker News getComments and getStories (SpecHN)

Fetched(i) == data[i] \in {"ok", "leaf"}
\* The ids of a kids list whose fetch gave an item, in the order of the list
FetchedOf(ids) == SelectSeq(ids, Fetched)
IdsOf(nodes) == [k \in 1..Len(nodes) |-> nodes[k].id]
AnyInFlight == \E i \in HNItems : fetch[i] = "inflight"

\* C2: a failed fetch of a child never fails getComments: when the story was
\* fetched, the call ends with a result, and a comment whose kids all failed
\* is in it with empty replies.
C2_ChildFailureAbsorbed ==
    (hnTool = "getComments" /\ Fetched(StoryId)) =>
        /\ hnOut.kind # "error"
        /\ (~AnyInFlight /\ fetch[StoryId] # "inflight") => hnOut.kind = "result"

RECURSIVE CountsMatch(_)
CountsMatch(n) ==
    /\ ~n.null
    /\ Fetched(n.id)
    /\ Len(n.replies) =
          Cardinality({k \in 1..Len(KidsOf(data[n.id], n.id)) :
                          Fetched(KidsOf(data[n.id], n.id)[k])})
    /\ \A j \in 1..Len(n.replies) : CountsMatch(n.replies[j])

\* C7: in a tree returned by getComments, every node has as many direct
\* children as its kids list has ids whose fetch gave a non-null item, and no
\* node stands for a failed or empty fetch.
C7_ChildCountEqualsFetched ==
    (hnTool = "getComments" /\ hnOut.kind = "result") =>
        /\ CountsMatch(Item(StoryId, hnOut.items))
        /\ hnOut.count = Len(hnOut.items)

\* A returned tree in which one of two kids of a comment was null
C7_Witness ==
    /\ hnTool = "getComments"
    /\ hnOut.kind = "result"
    /\ \E j \in 1..Len(hnOut.items) :
          /\ Len(Kids(hnOut.items[j].id)) >= 2
          /\ Len(hnOut.items[j].replies) = Len(Kids(hnOut.items[j].id)) - 1
          /\ \E k \in Range(Kids(hnOut.items[j].id)) : data[k] = "null"

RECURSIVE OrderKept(_)
OrderKept(n) ==
    /\ IdsOf(n.replies) = FetchedOf(KidsOf(data[n.id], n.id))
    /\ \A j \in 1..Len(n.replies) : OrderKept(n.replies[j])

\* C8: in every result of getComments the children of a node are in the order
\* of the node's kids list, and the stories of getStories in the order of the
\* id list, whichever fetches completed first.
C8_SiblingOrder ==
    /\ (hnTool = "getComments" /\ hnOut.kind = "result") =>
            OrderKept(Item(StoryId, hnOut.items))
    /\ (hnTool = "getStories" /\ hnOut.kind = "result") =>
            IdsOf(hnOut.items) = FetchedOf(RootIds(hnTool, limit))

\* A returned tree with two top-level comments and two replies under the first
C8_Witness ==
    /\ hnTool = "getComments"
    /\ hnOut.kind = "result"
    /\ Len(hnOut.items) >= 2
    /\ Len(hnOut.items[1].replies) >= 2
    /\ IdsOf(hnOut.items) = Kids(StoryId)
    /\ IdsOf(hnOut.items[1].replies) = Kids(hnOut.items[1].id)

\* C9: getComments attaches the children of a node only when every fetch of the
\* node's kids has settled, and once the invocation has returned (a result or
\* an error) none of its fetches is in flight.
C9_SettledBeforeReturn ==
    hnTool = "getComments" =>
        /\ \A i \in HNItems :
              fetch[i] = "resolved" =>
                  \A k \in Range(KidsOf(data[i], i)) : fetch[k] \in {"resolved", "rejected"}
        /\ hnOut.kind # "none" => ~AnyInFlight

\* C12: every item fetch of getComments, of the story and of each comment, goes
\* through the retrying fetcher: a fetch is given up as failed only after
\* maxRetries requests have been made for the item.
C12_FailedFetchRetried ==
    hnTool = "getComments" =>
        \A i \in HNItems : data[i] = "fail" => hnIssued[i] = maxRetries

-----------------------------------------------------------------------------
\* Claims about the normalization of reddit.ts getRedditComments (SpecProcess)

IsPlaceholder(n) == "type" \in DOMAIN n
SourceReplies(item) ==
    IF item.data.replies.listing THEN item.data.replies.children ELSE <<>>

\* out is src item by item: a placeholder with the count and the child ids of
\* the 'more' item at its position, a comment node with the id of the comment at
\* its position, and the same one level down
RECURSIVE Mirrors(_, _)
Mirrors(src, out) ==
    /\ Len(out) = Len(src)
    /\ \A k \in 1..Len(src) :
            IF src[k].kind = "more"
            THEN /\ IsPlaceholder(out[k])
                 /\ out[k].type = "more"
                 /\ out[k].count = src[k].data.count
                 /\ out[k].children = src[k].data.children
            ELSE /\ ~IsPlaceholder(out[k])
                 /\ out[k].id = src[k].data.id
                 /\ Mirrors(SourceReplies(src[k]), out[k].replies)

\* C14: at every nesting level the processed list has the length and the order
\* of the source children: each 'more' item is one placeholder node at its
\* position, with the source's count and omitted child ids, and every other
\* item is one comment node.
C14_PlaceholdersInPlace ==
    procOut = "result" => Mirrors(listing, processedComments)

\* Three comments and a 'more' item with count 5: four nodes, the last of them
\* the placeholder with count 5 and the omitted ids
C14_Witness ==
    /\ procOut = "result"
    /\ Len(listing) = 4
    /\ \A k \in 1..3 : listing[k].kind = "t1"
    /\ listing[4] = RawMore(5, << <<"x">>, <<"y">> >>)
    /\ Len(processedComments) = 4
    /\ processedComments[4] =
            [type |-> "more", count |-> 5, children |-> << <<"x">>, <<"y">> >>]

\* Every comment node of a list, and of the replies below it, has a permalink
\* that is a string
RECURSIVE PermalinksAreStrings(_)
PermalinksAreStrings(nodes) ==
    \A k \in 1..Len(nodes) :
        IsPlaceholder(nodes[k]) \/
            /\ nodes[k].permalink # JsNull
            /\ PermalinksAreStrings(nodes[k].replies)

\* C15: the post and every comment node of the output carry a permalink string,
\* the origin followed by the item's relative path or else a synthesized
\* fallback; the permalink is never null.
C15_PermalinkNeverNull ==
    procOut = "result" =>
        /\ outPost.permalink # JsNull
        /\ PermalinksAreStrings(processedComments)

-----------------------------------------------------------------------------
\* Claims about all the tools (SpecTools)

\* The error that ended a failed invocation of a Reddit or PullPush tool, as it
\* was raised: the one of the last attempt, the TypeError of JSON.stringify, or
\* the one of the checks on the body
RaisedError ==
    IF Len(failures) = maxRetries THEN failures[maxRetries].error
    ELSE IF treeOut = "error" THEN TypeError
    ELSE ShapeCheck(tool, response.shape)

HNFailedPrefix ==
    IF hnTool = "getComments" THEN "Failed to get Hacker News comments: "
    ELSE "Failed to get Hacker News stories: "
HNNotFound ==
    UserError(IF hnTool = "getComments" THEN "Story with ID ${storyId} not found"
              ELSE "Invalid response from Hacker News API")

\* C16: a failed invocation of a Reddit, PullPush or Hacker News tool throws one
\* UserError: a UserError raised inside the handler reaches the caller as it
\* is; any other error is thrown as a UserError whose message names the failed
\* operation, carries the message of the error and, when the failure was an
\* HTTP status, that status.
C16_OneUserErrorPerFailure ==
    /\ outcome.kind = "error" =>
            IF RaisedError.isUserError
            THEN outcome.message = RaisedError.message
            ELSE /\ outcome.message.prefix = FailedPrefix(tool)
                 /\ outcome.message.cause = RaisedError.message.cause
                 /\ outcome.message.status = RaisedError.message.status
    /\ hnOut.kind = "error" =>
            IF data[StoryId] = "null"
            THEN hnOut.message = HNNotFound.message
            ELSE /\ hnOut.message.prefix = HNFailedPrefix
                 /\ hnOut.message.cause \in HNFailures

\* getComments has thrown the UserError raised for a story that does not exist
C16_Witness ==
    /\ hnTool = "getComments"
    /\ data[StoryId] = "null"
    /\ hnOut.kind = "error"
    /\ hnOut.message.prefix = "Story with ID ${storyId} not found"

-----------------------------------------------------------------------------
\* Claims about concurrent invocations (SpecConcurrent)

\* The ids of the nodes in the tree an invocation returned
OutputIds(v) ==
    {v.comments[v.topLevelComments[k]].id : k \in 1..Len(v.topLevelComments)}
        \cup UNION {{v.comments[v.replies[p][k]].id : k \in 1..Len(v.replies[p])} :
                        p \in DOMAIN v.replies}

\* C17: in every interleaving of concurrent invocations each one has its own
\* retry counter and its own tree: the counter of an invocation counts its own
\* failures only, so an invocation makes up to maxRetries requests and gives up
\* only after maxRetries failures of its own; and the tree an invocation
\* returns has nodes of its own batch only.
C17_InvocationsIndependent ==
    \A i \in InvIds :
        LET v == invocations[i]
        IN  /\ v.retries = v.failed
            /\ v.issued <= maxRetries
            /\ v.pc = "error" => v.failed = maxRetries
            /\ v.pc = "backoff" => v.failed < maxRetries
            /\ v.pc = "result" =>
                    /\ OutputIds(v) \subseteq BatchIds(v.comments)
                    /\ \A j \in InvIds \ {i} :
                            OutputIds(v) \cap BatchIds(invocations[j].comments) = {}

\* Invocation 1 has given up after three failures of its own while invocation
\* 2, after one failure, has returned the tree of its batch
C17_Witness ==
    /\ invocations[1].pc = "error"
    /\ invocations[1].failed = maxRetries
    /\ invocations[2].pc = "result"
    /\ invocations[2].failed = 1
    /\ invocations[2].issued = 2
    /\ Len(invocations[2].comments) = 2
    /\ Len(invocations[2].topLevelComments) = 1

-----------------------------------------------------------------------------
\* Claims about the tools and the normalizations together (SpecAll)

\* A comment of the source without replies has the replies [] in the output
RECURSIVE EmptyWhereNoReplies(_, _)
EmptyWhereNoReplies(src, out) ==
    \A k \in 1..Len(src) :
        (src[k].kind # "more" /\ k <= Len(out)) =>
            /\ SourceReplies(src[k]) = <<>> => out[k].replies = <<>>
            /\ EmptyWhereNoReplies(SourceReplies(src[k]), out[k].replies)

IsNamedAsParent(k) ==
    \E j \in 1..Len(comments) : comments[j].parent_id = T1 \o comments[k].id
HasNoKids(i) == data[i] \in {"ok", "leaf"} /\ KidsOf(data[i], i) = <<>>

\* C19: a node with zero children has the replies [], never a placeholder: a
\* comment of fetchComment whose kids are absent or empty, a comment of
\* processComments whose replies are absent or empty, an item of the PullPush
\* batch that no item names as its parent; and for a story without kids
\* getComments returns comments [] and count 0 and fetches no child.
C19_NoChildrenEmptyReplies ==
    /\ hnTool = "getComments" =>
            /\ \A i \in HNItems \ {StoryId} :
                    (fetch[i] = "resolved" /\ HasNoKids(i)) =>
                        /\ node[i].id = i
                        /\ node[i].replies = <<>>
            /\ HasNoKids(StoryId) =>
                    /\ hnOut.kind = "result"
                    /\ hnOut.items = <<>>
                    /\ hnOut.count = 0
                    /\ \A i \in HNItems \ {StoryId} : hnIssued[i] = 0
    /\ procOut = "result" => EmptyWhereNoReplies(listing, processedComments)
    /\ treeOut = "result" =>
            \A k \in 1..Len(comments) : ~IsNamedAsParent(k) => replies[k] = <<>>

\* getComments answered with a comment tree of which the last comment fetched
\* has no kids: its node has the replies []
C19_Witness ==
    /\ hnTool = "getComments"
    /\ hnOut.kind = "result"
    /\ hnOut.count = MaxKids
    /\ \E i \in HNItems \ {StoryId} :
            /\ fetch[i] = "resolved"
            /\ data[i] = "leaf"
            /\ node[i].replies = <<>>

\* C20: normalization does not change the fetched items: the tree build of the
\* PullPush getRedditComments leaves the batch as it was received, and
\* processComments and the post of the output leave the listing and the post
\* of the response as they were received.
C20_RawItemsUnchanged ==
    [][(BuildCommentTree \/ ProcessResponse \/ \E answer \in PostAnswers : PostSettles(answer)) =>
            /\ comments' = comments
            /\ listing' = listing
            /\ rawPost' = rawPost]_vars

\* A tree with a reply built from a batch of MaxBatch items, all still in the
\* batch with the parent_id they came with
C20_Witness ==
    /\ pc = "idle"
    /\ treeOut = "result"
    /\ Len(comments) = MaxBatch
    /\ \E p \in 1..Len(comments) : replies[p] # <<>>
    /\ \A k \in 1..Len(comments) : DOMAIN comments[k] = {"id", "parent_id"}

-----------------------------------------------------------------------------
\* Claims about execute_sql and executeQuery (SpecSql)

IsKeywordToken(t) == toUpperCase(t) \in Range(writeOperations)
IsSeparator(t) == t \in {Space, Tab, Semicolon, Comment}
\* The query has a write keyword, in either case, where a statement begins: at
\* the start of the query or after a semicolon, with nothing but whitespace
\* and comments in between
RECURSIVE StartsWriteStatement(_)
StartsWriteStatement(str) ==
    \E t \in {Space, Tab, Comment} \cup {Keyword, KeywordLower} :
        /\ startsWith(str, t)
        /\ IF t \in {Keyword, KeywordLower} THEN TRUE
           ELSE StartsWriteStatement(substring(str, Len(t)))
HasWriteStatement(str) ==
    \/ StartsWriteStatement(str)
    \/ \E k \in 1..Len(str) : str[k] = ";" /\ StartsWriteStatement(substring(str, k))

\* C21: a query in which a write keyword occurs as a statement keyword, in any
\* letter case and with any whitespace or punctuation around it, is rejected
\* with the UserError of the write check, is not passed to executeQuery, and no
\* connection is opened for it.
C21_WriteQueriesRejected ==
    (sqlCalls > 0 /\ HasWriteStatement(sqlQuery)) =>
        /\ sqlPc = "done"
        /\ sqlOut = WriteDenied
        /\ sqlPassed = <<>>
        /\ sqlConn = 0

\* C29: every connection that was opened is closed exactly once before
\* executeQuery returns or throws, whether the session timeout and the query
\* succeed or fail; a call opens at most one connection, and a connection in
\* use is the one that call opened.
C29_ConnectionsClosedOnce ==
    /\ sqlOpened <= sqlCalls
    /\ Len(sqlEnded) = sqlOpened
    /\ \A c \in 1..sqlOpened :
          sqlEnded[c] = IF sqlPc \in {"setTimeout", "query", "finally"} /\ c = sqlConn
                        THEN 0 ELSE 1
    /\ sqlPc \in {"setTimeout", "query", "finally"} => sqlConn = sqlOpened

\* a second call has failed in its query, after a first that opened a
\* connection too, and has returned
C29_Witness ==
    /\ sqlPc = "done"
    /\ sqlErr
    /\ sqlOut = SqlCatch
    /\ sqlOpened = 2
    /\ sqlConn = 2
    /\ sqlEnded = <<1, 1>>

-----------------------------------------------------------------------------
\* Claims about the YouTube tools (SpecYoutube)

\* C22: with YOUTUBE_API_KEY unset every Data API tool returns the error
\* 'YouTube API key not found in environment variables' and no request is
\* made; a request that fails ends in a returned object with the fields error
\* and message; no invocation of a YouTube tool raises.
C22_FailureIsAValue ==
    /\ ytOut.kind # "raised"
    /\ ytPc = "done" => ytOut.kind = "returned"
    /\ ~ytKey => ytRequests = 0
    /\ (~ytKey /\ ytTool \in DataApiTools) => (ytPc = "done" /\ ytOut = KeyMissing)
    /\ (ytPc = "done" /\ ytAnswer \in YtFailures) =>
          (ytOut.error # "" /\ ytOut.message # "")

\* a Data API tool, invoked with the key set, has had its request refused
C22_Witness ==
    /\ ytKey
    /\ ytTool = "youtubePopularVideos"
    /\ ytPc = "done"
    /\ ytAnswer = "403"
    /\ ytOut = YtReturned("YouTube API error", "Request failed with status code 403")

-----------------------------------------------------------------------------
\* Further claims about the retry loop (SpecRetry)

\* What the catch block of a tool throws for an error that carries the
\* response of the given status
ForStatus(t, status) ==
    Catch(t, [isUserError |-> FALSE, response |-> status, message |-> NoMessage])
NamesStatus(t, status) ==
    \/ t.name = "searchReddit" /\ status \in {500, 429, 404}
    \/ t.file = "reddit" /\ t.name # "searchReddit" /\ status = 404

\* C23: when the attempts are exhausted and the last response had status 500,
\* 429 or 404, searchReddit throws the UserError of that status; getRedditComments
\* and getRedditPost of reddit.ts throw 'Post with ID <postId> not found' after a
\* final 404.
C23_StatusSpecificError ==
    (pc = "done" /\ Len(failures) = 3 /\ NamesStatus(tool, StatusOf(3))) =>
        /\ outcome.kind = "error"
        /\ outcome.message = ForStatus(tool, StatusOf(3)).message

\* How often the item at index i is in the top-level list or in a list of replies
Placements(top, reps, i) ==
    Occurrences(top, i)
    + Cardinality({pj \in UNION {{<<p, j>> : j \in 1..Len(reps[p])} : p \in DOMAIN reps} :
                      reps[pj[1]][pj[2]] = i})

\* C24: in the PullPush getRedditComments the post request is issued once, and
\* only after the comment batch was fetched; when it fails (no response, a
\* status other than 200, no data) the invocation still returns, with the post
\* {id: postId, title: 'Unknown', selftext: '', num_comments: batch size} and
\* the tree built from the whole batch.
C24_PostFailureTolerated ==
    [][/\ postRequests' <= 1
       /\ postRequests' = 1 =>
             /\ tool' = [file |-> "pushapi", name |-> "getRedditComments"]
             /\ response'.status < 400
             /\ response'.shape \in {"empty", "ok"}
             /\ Len(issued') = Len(failures') + 1
       /\ \A answer \in PostFailures : PostSettles(answer) =>
             /\ pc' = "done"
             /\ outcome' = Result
             /\ post' = [id |-> postId, title |-> "Unknown", selftext |-> "",
                         num_comments |-> Len(comments)]
             /\ treeOut' = "result"
             /\ \A i \in DOMAIN comments : Placements(topLevelComments', replies', i) = 1
      ]_vars

\* the post request of an invocation that had fetched two comments has failed
C24_Witness ==
    /\ tool = [file |-> "pushapi", name |-> "getRedditComments"]
    /\ pc = "done"
    /\ postRequests = 1
    /\ Len(comments) = 2
    /\ post = [id |-> postId, title |-> "Unknown", selftext |-> "", num_comments |-> 2]
    /\ outcome = Result

\* C25: once an attempt is answered with a status below 400 the loop is left:
\* no further request goes to the endpoint and no backoff delay is taken, also
\* when the body is empty or of the wrong layout; the attempts of an invocation
\* are failures followed by at most one success.
C25_SuccessEndsTheLoop ==
    [][/\ response.status \in 1..399 =>
             /\ issued' = issued
             /\ delays' = delays
             /\ failures' = failures
             /\ retries' = retries
             /\ pc' \notin {"inflight", "backoff"}
       /\ \A status \in Statuses, shape \in Shapes : RespondOk(status, shape) =>
             /\ pc' \in {"done", "postInflight"}
             /\ issued' = issued
             /\ delays' = delays
             /\ Len(issued) = Len(failures) + 1
      ]_vars

\* two failed attempts, then an answer with status 200 and no usable body: three
\* requests, two delays, and the invocation is over
C25_Witness ==
    /\ pc = "done"
    /\ response = [status |-> 200, shape |-> "nodata"]
    /\ Len(failures) = 2
    /\ Len(issued) = 3
    /\ Len(delays) = 2

-----------------------------------------------------------------------------
\* Further claims about Hacker News getComments (SpecHN)

InFlight == {i \in HNItems : fetch[i] = "inflight"}

\* C26: getComments issues the fetches of all children of a node before it
\* awaits any of them, at every depth: as soon as an item with a kids list has
\* arrived, a request has been made for each of its kids, so that all k of them
\* are in flight together; nothing but the number of items bounds the requests
\* in flight.
C26_FanOutWithoutCap ==
    hnTool = "getComments" =>
        \A i \in HNItems : data[i] = "ok" =>
            \A k \in Range(Kids(i)) : hnIssued[k] = 1

\* all kids of the first comment are in flight at the second level, together
\* with every other kid of the story
C26_Witness ==
    /\ hnTool = "getComments"
    /\ Range(Kids(MaxKids)) \subseteq InFlight
    /\ Range(Kids(StoryId)) \ {MaxKids} \subseteq InFlight
    /\ Cardinality(InFlight) = 2 * MaxKids - 1

\* The items that can be reached from item i through the kids lists of the
\* items that arrived
RECURSIVE ReachableItems(_)
ReachableItems(i) ==
    IF ~Fetched(i) THEN {}
    ELSE {i} \cup (IF data[i] = "ok"
                   THEN UNION {ReachableItems(k) : k \in Range(Kids(i))}
                   ELSE {})

\* How many nodes of the trees in nodes have the id i
RECURSIVE NodesWithId(_, _)
NodesWithId(nodes, i) ==
    IF nodes = <<>> THEN 0
    ELSE (IF Head(nodes).id = i THEN 1 ELSE 0)
         + NodesWithId(Head(nodes).replies, i)
         + NodesWithId(Tail(nodes), i)

AnyFailed == \E i \in HNItems : data[i] = "fail"
Returned ==
    /\ ~AnyInFlight
    /\ \/ hnOut.kind = "error" /\ data[StoryId] = "null"
       \/ /\ hnOut.kind = "result"
          /\ \A i \in ReachableItems(StoryId) \ {StoryId} : NodesWithId(hnOut.items, i) = 1
          /\ \A i \in HNItems \ ReachableItems(StoryId) : NodesWithId(hnOut.items, i) = 0

\* C27: over a finite store whose kids links form a tree, getComments
\* terminates unless a request fails, and every item that is not null and is
\* reachable from the story through the kids lists of such items is exactly
\* once in the tree returned (a story that is null ends the call with the
\* not-found error).
C27_TerminatesWithEveryItemOnce == (hnTool = "getComments") ~> (Returned \/ AnyFailed)

\* the tree returned holds the items of all three levels below the story
C27_Witness ==
    /\ hnTool = "getComments"
    /\ hnOut.kind = "result"
    /\ ~AnyFailed
    /\ ReachableItems(StoryId) = HNItems
    /\ \A i \in HNItems \ {StoryId} : NodesWithId(hnOut.items, i) = 1

-----------------------------------------------------------------------------
\* Further claims about the tree build (SpecTree)

\* The node objects of the tree returned: those reachable from the top-level list
ReturnedNodes ==
    ReachableFrom({topLevelComments[j] : j \in 1..Len(topLevelComments)}, replies,
                  Len(comments))
\* How often the node object of the item at index i is in the tree returned
TimesReturned(i) ==
    Occurrences(topLevelComments, i)
    + Cardinality({xj \in UNION {{<<x, j>> : j \in 1..Len(replies[x])} : x \in ReturnedNodes} :
                      replies[xj[1]][xj[2]] = i})
\* The items whose parent references lead back to themselves
RECURSIVE LeadsTo(_, _, _)
LeadsTo(k, target, n) ==
    /\ n > 0
    /\ \E p \in 1..Len(comments) :
          /\ comments[k].parent_id = T1 \o comments[p].id
          /\ (p = target \/ LeadsTo(p, target, n - 1))
InCycle(k) == LeadsTo(k, k, Len(comments))

\* C28: for every batch with unique ids the tree returned holds each item of the
\* batch at most once and no node that is not of the batch, and no node of it
\* is its own descendant, also when the parent references form a cycle or an
\* item names itself as its parent.
C28_ReturnedTreeIsAForest ==
    (treeOut # "none" /\ UniqueIds(comments)) =>
        /\ treeOut = "result"
        /\ ~Circular(topLevelComments, replies)
        /\ ReturnedNodes \subseteq 1..Len(comments)
        /\ \A i \in 1..Len(comments) : TimesReturned(i) <= 1
        /\ \A i \in 1..Len(comments) : InCycle(i) => TimesReturned(i) = 0

\* two items that name each other as parent, and a third that replies to the
\* post: the tree returned is the third alone
C28_Witness ==
    /\ treeOut = "result"
    /\ Len(comments) = 3
    /\ UniqueIds(comments)
    /\ comments[1].parent_id = T1 \o comments[2].id
    /\ comments[2].parent_id = T1 \o comments[1].id
    /\ InCycle(1) /\ InCycle(2)
    /\ topLevelComments = <<3>>
    /\ replies[1] = <<2>> /\ replies[2] = <<1>>

-----------------------------------------------------------------------------
\* Claims about generateMermaidDiagram (SpecMermaid)

\* C30: when an invocation of generateMermaidDiagram has ended, with the image
\* or with an error from writing the input, running mmdc or reading the
\* output, the temporary directory it made is gone.
C30_TempDirRemoved ==
    (mmPc = "done" /\ tempDir # 0) => ~mmDirs[tempDir].exists

====
